---- MODULE Spec2Model ----
(***************************************************************************)
(* A model of agent_orchestrator.py: the tool-calling turn loop            *)
(* (process_user_command), its error-recovery tracker, the supervisor of   *)
(* the single background 'ng serve' process, and the session state         *)
(* (active project path, chat session, conversation transcript).           *)
(*                                                                         *)
(* The LLM, the shell, the human operator and the supervised process are   *)
(* the environment: their answers are drawn from bounded sets.  Spec is    *)
(* the program run from __main__; FileSpec calls the file tools directly   *)
(* on a wider set of paths and texts.                                      *)
(***************************************************************************)
EXTENDS Integers, Sequences, FiniteSets, TLC

(***************************************************************************)
(* Bounds of the model.                                                    *)
(***************************************************************************)
\* user utterances processed in one run of the script
MaxUtterances == 2
\* tool-result turns sent to the LLM in one run
MaxRounds == 3
\* tool-result turns sent in a run whose requests start or stop the server
\* or create a project
MaxLongRounds == 2
\* parts (a text, tool-call requests) in one model response
MaxBatch == 2
\* processes Popen may spawn in one run (afterwards a spawn fails)
MaxSpawn == 2
\* polls of the monitoring window of a server start (20 s at 0.2 s a poll
\* in the code)
MaxPolls == 2
\* direct calls of the file tools in one run of FileSpec
MaxFileCalls == 3
\* lines the server writes on each of its streams
MaxLines == 2

(***************************************************************************)
(* Program constants.                                                      *)
(***************************************************************************)
MAX_ERROR_FIX_ATTEMPTS == 3

\* Python's None, for the values the model keeps as strings.
None == "None"
\* NG_SERVE_PROCESS = None: the slot holds no Popen handle (pids start at 1).
NoProcess == 0

(***************************************************************************)
(* Commands the LLM may put in a 'command' argument, and Python's view of  *)
(* them: str.split(), the test '"ng new" in command', truthiness.          *)
(***************************************************************************)
Commands ==
    {"ng build", "ng test", "ng serve", "", "ng new app", "mkdir new && ng new app"}

\* command.split(): the whitespace-separated tokens of each command
Split(command) ==
    CASE command = "ng build" -> <<"ng", "build">>
      [] command = "ng test" -> <<"ng", "test">>
      [] command = "ng serve" -> <<"ng", "serve">>
      [] command = "" -> <<>>
      [] command = "ng new app" -> <<"ng", "new", "app">>
      [] command = "mkdir new && ng new app" ->
             <<"mkdir", "new", "&&", "ng", "new", "app">>
      [] OTHER -> <<>>

\* '"ng new" in command': the tokens "ng", "new" next to each other
ContainsNgNew(command) ==
    LET parts == Split(command)
    IN  \E i \in 1..(Len(parts) - 1) : parts[i] = "ng" /\ parts[i + 1] = "new"

\* bool(x) of an optional string: None and "" are falsy
Truthy(x) == x # None /\ x # ""

\* parts.index("new"): 0 when "new" is no token (Python raises ValueError)
IndexOfNew(parts) ==
    IF \E i \in 1..Len(parts) : parts[i] = "new"
    THEN CHOOSE i \in 1..Len(parts) :
             parts[i] = "new" /\ \A j \in 1..(i - 1) : parts[j] # "new"
    ELSE 0

\* execute_shell_command's project name: the token after the first "new",
\* None when there is none or it starts with "--"
ToolProjectName(command) ==
    LET parts == Split(command)
        i == IndexOfNew(parts)
    IN  IF i = 0 \/ i + 1 > Len(parts) THEN None ELSE parts[i + 1]

\* process_user_command's project name:
\* cmd.split("ng new")[1].strip().split(" ")[0], "" when nothing follows
LoopProjectName(command) ==
    LET parts == Split(command)
        i == CHOOSE k \in 1..(Len(parts) - 1) :
                 /\ parts[k] = "ng" /\ parts[k + 1] = "new"
                 /\ \A j \in 1..(k - 1) : ~(parts[j] = "ng" /\ parts[j + 1] = "new")
    IN  IF ~ContainsNgNew(command) THEN ""
        ELSE IF i + 2 > Len(parts) THEN "" ELSE parts[i + 2]

(***************************************************************************)
(* Directories.  "/work" is the project the operator may name at start-up, *)
(* "/parent" a directory the LLM or the operator names for 'ng new'.       *)
(***************************************************************************)
ParentDir == "/parent"
WorkDir == "/work"

\* os.path.join(directory, name)
PathJoin(directory, name) ==
    CASE directory = "/parent" /\ name = "app" -> "/parent/app"
      [] directory = "/parent" /\ name = "&&" -> "/parent/&&"
      [] directory = "/work" /\ name = "app" -> "/work/app"
      [] directory = "/work" /\ name = "&&" -> "/work/&&"
      [] OTHER -> "/elsewhere"

\* the directories 'ng new app' creates when it did create its project
ProjectDirs == {"/parent/app", "/work/app"}

(***************************************************************************)
(* Paths and the filesystem.  A path is its sequence of segments; a path   *)
(* argument is absolute (it starts with "/") or relative.  The filesystem  *)
(* maps the paths that exist to a directory or to a file and its bytes.    *)
(***************************************************************************)
RelPath(segs) == [absolute |-> FALSE, segs |-> segs]
AbsPath(segs) == [absolute |-> TRUE, segs |-> segs]

\* the segments of the directories the active project path may name
PathSegs(path) ==
    CASE path = "/work" -> <<"work">>
      [] path = "/parent" -> <<"parent">>
      [] path = "/parent/app" -> <<"parent", "app">>
      [] path = "/work/app" -> <<"work", "app">>
      [] OTHER -> <<"elsewhere">>

\* what the kernel makes of "." and ".." when it resolves a path (every
\* ".." of the paths of this model follows a directory that exists)
RECURSIVE NormalizeFrom(_, _)
NormalizeFrom(resolved, segs) ==
    IF segs = <<>> THEN resolved
    ELSE IF Head(segs) = "." THEN NormalizeFrom(resolved, Tail(segs))
    ELSE IF Head(segs) = ".."
    THEN NormalizeFrom(IF resolved = <<>> THEN <<>>
                       ELSE SubSeq(resolved, 1, Len(resolved) - 1),
                       Tail(segs))
    ELSE NormalizeFrom(Append(resolved, Head(segs)), Tail(segs))

\* os.path.join(CURRENT_PROJECT_PATH, relative_path), as the kernel resolves
\* it: an absolute second argument discards the first
FullPath(root, relative_path) ==
    NormalizeFrom(<<>>, IF relative_path.absolute THEN relative_path.segs
                        ELSE PathSegs(root) \o relative_path.segs)

DirNode == [kind |-> "dir", bytes |-> <<>>]
FileNode(bytes) == [kind |-> "file", bytes |-> bytes]

\* os.path.exists, os.path.isfile, os.path.isdir
PathExists(fs, path) == path \in DOMAIN fs
IsFile(fs, path) == path \in DOMAIN fs /\ fs[path].kind = "file"
IsDirectory(fs, path) == path \in DOMAIN fs /\ fs[path].kind = "dir"

\* the proper ancestors of a path, and the paths at or below it
Ancestors(path) == {SubSeq(path, 1, k) : k \in 0..(Len(path) - 1)}
AtOrBelow(path, other) ==
    Len(other) >= Len(path) /\ SubSeq(other, 1, Len(path)) = path

\* the filesystem at start-up: the project /work with a file and a directory
\* holding a file, and a file outside the project
InitialFiles ==
    (<<>> :> DirNode) @@ (<<"work">> :> DirNode)
    @@ (<<"work", "a.txt">> :> FileNode(<<"x">>))
    @@ (<<"work", "src">> :> DirNode)
    @@ (<<"work", "src", "b.txt">> :> FileNode(<<"y">>))
    @@ (<<"secret.txt">> :> FileNode(<<"s">>))

\* os.linesep of the platform the commands of this program are written for
linesep == <<"\n">>

\* what open(path, 'w') writes for a text (newline=None): each "\n" becomes
\* os.linesep
RECURSIVE EncodeText(_)
EncodeText(text) ==
    IF text = <<>> THEN <<>>
    ELSE (IF Head(text) = "\n" THEN linesep ELSE <<Head(text)>>)
             \o EncodeText(Tail(text))

\* what open(path, 'r').read() returns for the bytes of a file (universal
\* newlines): "\r\n" and a lone "\r" become "\n"
RECURSIVE DecodeText(_)
DecodeText(bytes) ==
    IF bytes = <<>> THEN <<>>
    ELSE IF Head(bytes) = "\r"
    THEN <<"\n">> \o DecodeText(IF Len(bytes) >= 2 /\ bytes[2] = "\n"
                                 THEN Tail(Tail(bytes)) ELSE Tail(bytes))
    ELSE <<Head(bytes)>> \o DecodeText(Tail(bytes))

(***************************************************************************)
(* The tool registry and the tool-call requests of the LLM.                *)
(***************************************************************************)
available_tools_python_functions ==
    {"execute_shell_command", "start_angular_serve_and_get_initial_output",
     "stop_angular_server", "write_file", "read_file",
     "list_directory_contents", "delete_file_or_directory",
     "ask_user_confirmation"}

\* the tools whose signature has the parameters command and working_directory
CommandTools ==
    {"execute_shell_command", "start_angular_serve_and_get_initial_output"}

\* The arguments of a request, as far as the loop and the tools read them:
\* args.get("command"), args.get("working_directory"), and whether the mapping
\* has the tool's other parameters right (extra: a key the tool does not take,
\* or a required one missing).
Args(command, working_directory, extra) ==
    [command |-> command, working_directory |-> working_directory,
     extra |-> extra, relative_path |-> RelPath(<<>>), content |-> <<>>]

NoArgs == Args(None, None, FALSE)

\* the arguments of a file tool: relative_filepath / relative_path, content
FileArgs(relative_path, content) ==
    [NoArgs EXCEPT !.relative_path = relative_path, !.content = content]

Call(name, args) == [name |-> name, args |-> args]

\* tool_function(**tool_args_dict) binds: no TypeError from the call itself
Accepts(name, args) ==
    /\ ~args.extra
    /\ name \in CommandTools => args.command # None
    /\ name \notin CommandTools =>
           args.command = None /\ args.working_directory = None

\* What the LLM asks for is an input of the model.  One run draws its
\* requests from one of these families, chosen at start-up.
Profiles == {"retry", "serve", "misc", "new", "files", "frame"}

Requests(profile) ==
    CASE profile = "retry" ->
           {Call("execute_shell_command", Args(c, None, FALSE)) :
                c \in {"ng build", "ng test", ""}}
      [] profile = "serve" ->
           {Call("start_angular_serve_and_get_initial_output",
                 Args("ng serve", w, FALSE)) : w \in {None, ParentDir}}
           \cup {Call("stop_angular_server", NoArgs)}
      [] profile = "misc" ->
           {Call("generate_component", NoArgs),
            Call("generate_component", Args("ng build", None, FALSE)),
            Call("execute_shell_command", Args("ng build", None, FALSE)),
            Call("execute_shell_command", Args("ng build", None, TRUE))}
      [] profile = "files" ->
           {Call("read_file", FileArgs(RelPath(<<"a.txt">>), <<>>)),
            Call("write_file",
                 FileArgs(RelPath(<<"a.txt">>), <<"a", "\n", "b">>)),
            Call("list_directory_contents",
                 FileArgs(RelPath(<<"src">>), <<>>)),
            Call("delete_file_or_directory",
                 FileArgs(RelPath(<<"src">>), <<>>))}
      [] profile = "frame" ->
           {Call("execute_shell_command", Args("ng build", None, FALSE)),
            Call("delete_file_or_directory",
                 FileArgs(RelPath(<<"src">>), <<>>)),
            Call("read_file", FileArgs(RelPath(<<"a.txt">>), <<>>)),
            Call("ask_user_confirmation", NoArgs)}
      [] profile = "new" ->
           {Call("execute_shell_command", Args("ng new app", w, FALSE)) :
                w \in {None, ParentDir}}
           \cup {Call("execute_shell_command",
                      Args("mkdir new && ng new app", ParentDir, FALSE))}

\* the sequences of at most n requests
RECURSIVE Batches(_, _)
Batches(profile, n) ==
    IF n = 0 THEN {<<>>}
    ELSE LET shorter == Batches(profile, n - 1)
         IN  shorter \cup
             {Append(b, r) : b \in {x \in shorter : Len(x) = n - 1},
                             r \in Requests(profile)}

(***************************************************************************)
(* Transcript turns.  A turn is a role and its parts; a part is a text, a  *)
(* function_call (name, args) or a function_response (name, result).       *)
(***************************************************************************)
\* A result payload, as far as the loop reads it: what it says (payload),
\* the key exit_code when it has one, status, pid, new_project_path_set; and
\* of the file tools the text read_file returns and the contents
\* list_directory_contents returns.
Result(payload, has_exit_code, exit_code, status, pid) ==
    [payload |-> payload, has_exit_code |-> has_exit_code,
     exit_code |-> exit_code, status |-> status, pid |-> pid,
     new_project_path_set |-> None, text |-> <<>>, contents |-> {}]

NoResult == Result("", FALSE, 0, None, NoProcess)

TextPart == [kind |-> "text", name |-> "", args |-> NoArgs, result |-> NoResult]

CallPart(fc) ==
    [kind |-> "function_call", name |-> fc.name, args |-> fc.args,
     result |-> NoResult]

ResponsePart(name, result) ==
    [kind |-> "function_response", name |-> name, args |-> NoArgs,
     result |-> result]

Turn(role, parts) == [role |-> role, parts |-> parts]

\* whether a turn holds a tool-call request
HasFunctionCall(turn) ==
    \E i \in DOMAIN turn.parts : turn.parts[i].kind = "function_call"

\* The loop reads the last turn only (lines 410, 527); of the turns before it
\* the model keeps the role and whether the turn holds tool-call requests.
Archived(turn) ==
    [role |-> turn.role,
     parts |-> IF HasFunctionCall(turn)
               THEN <<[kind |-> "function_call", name |-> "", args |-> NoArgs,
                       result |-> NoResult]>>
               ELSE <<>>]

\* conversation_history_for_this_run.append(turn)
HistoryAppend(history, turn) ==
    Append([i \in DOMAIN history |-> Archived(history[i])], turn)

\* a model response: its parts as process_user_command logs them
\* (lines 395-401): the text first when there is one, then the calls in order
ModelParts(text, calls) ==
    (IF text THEN <<TextPart>> ELSE <<>>)
        \o [i \in DOMAIN calls |-> CallPart(calls[i])]

\* initial_history_for_session: the standing instructions and the model's
\* acknowledgement
initial_history_for_session ==
    <<Turn("user", <<TextPart>>), Turn("model", <<TextPart>>)>>

(***************************************************************************)
(* The tools.  Each is an operator from the globals it reads                *)
(* (g.CURRENT_PROJECT_PATH, g.NG_SERVE_PROCESS, the set g.running of live  *)
(* pids, the number g.spawned of processes Popen has started, the          *)
(* filesystem g.files) and the                                             *)
(* environment's answer to an effect: the result returned, the globals     *)
(* afterwards, the signals sent and whether a process was run.             *)
(***************************************************************************)
Effect(g, result, signals, ran) ==
    [g |-> g, result |-> result, signals |-> signals, ran |-> ran]

\* NG_SERVE_PROCESS and NG_SERVE_PROCESS.poll() is None
ServeAlive(g) ==
    g.NG_SERVE_PROCESS # NoProcess /\ g.NG_SERVE_PROCESS \in g.running

\* os.path.isdir of a project path after 'ng new': created says whether the
\* command left its project directory behind
IsDir(path, created) == created /\ path \in ProjectDirs

\* execute_shell_command(command, working_directory): exit_code is the exit
\* status of the command when it is run
\* execute_shell_command with a bug: line 93 does not test the exit status
execute_shell_command_NoExitTest(g, command, working_directory, exit_code, created) ==
    LET resolved_working_directory ==
            IF working_directory # None THEN working_directory
            ELSE IF Truthy(g.CURRENT_PROJECT_PATH) THEN g.CURRENT_PROJECT_PATH
            ELSE None
        project_name == ToolProjectName(command)
        new_project_full_path ==
            PathJoin(resolved_working_directory, project_name)
        ran == Result("completed", TRUE, exit_code, None, NoProcess)
    IN  IF /\ working_directory = None
           /\ ~Truthy(g.CURRENT_PROJECT_PATH)
           /\ ~ContainsNgNew(command)
        THEN Effect(g, Result("Error: Working directory not set.", TRUE, 1,
                              None, NoProcess), <<>>, FALSE)
        ELSE IF /\ ContainsNgNew(command)
                /\ Truthy(project_name) /\ Truthy(resolved_working_directory)
                /\ IsDir(new_project_full_path, created)
        THEN Effect([g EXCEPT !.CURRENT_PROJECT_PATH = new_project_full_path],
                    [ran EXCEPT !.new_project_path_set = new_project_full_path],
                    <<>>, TRUE)
        ELSE Effect(g, ran, <<>>, TRUE)

execute_shell_command(g, command, working_directory, exit_code, created) ==
    LET resolved_working_directory ==
            IF working_directory # None THEN working_directory
            ELSE IF Truthy(g.CURRENT_PROJECT_PATH) THEN g.CURRENT_PROJECT_PATH
            ELSE None
        project_name == ToolProjectName(command)
        new_project_full_path ==
            PathJoin(resolved_working_directory, project_name)
        ran == Result("completed", TRUE, exit_code, None, NoProcess)
    IN  IF /\ working_directory = None
           /\ ~Truthy(g.CURRENT_PROJECT_PATH)
           /\ ~ContainsNgNew(command)
        THEN Effect(g, Result("Error: Working directory not set.", TRUE, 1,
                              None, NoProcess), <<>>, FALSE)
        ELSE IF /\ ContainsNgNew(command) /\ exit_code = 0
                /\ Truthy(project_name) /\ Truthy(resolved_working_directory)
                /\ IsDir(new_project_full_path, created)
        THEN Effect([g EXCEPT !.CURRENT_PROJECT_PATH = new_project_full_path],
                    [ran EXCEPT !.new_project_path_set = new_project_full_path],
                    <<>>, TRUE)
        ELSE Effect(g, ran, <<>>, TRUE)

(***************************************************************************)
(* The monitoring window of a server start (lines 146-166).  At each poll  *)
(* the loop finds the process gone ("exited"), or reads what the reader    *)
(* threads have queued: a line with a success marker on stdout             *)
(* ("success"), a line with an error marker on stderr ("error"), both      *)
(* ("success+error"), or no marker ("quiet").                              *)
(***************************************************************************)
PollKinds == {"quiet", "success", "error", "success+error", "exited"}

\* lines 150-155 on one poll: stdout is read first, then stderr
StatusAfterPoll(status, poll) ==
    LET after_stdout == IF poll \in {"success", "success+error"}
                        THEN "compiled_successfully" ELSE status
    IN  IF poll \in {"error", "success+error"}
        THEN "error_during_startup" ELSE after_stdout

\* the while loop of lines 147-158 from poll i on with the status so far:
\* the status at the end of the loop and the number of polls it made
RECURSIVE MonitorFrom(_, _, _)
MonitorFrom(status, polls, i) ==
    IF i > Len(polls)
    THEN [status |-> status, polls |-> Len(polls)]
    ELSE IF polls[i] = "exited"
    THEN [status |-> "error_during_startup", polls |-> i]
    ELSE IF StatusAfterPoll(status, polls[i]) = "compiled_successfully"
    THEN [status |-> "compiled_successfully", polls |-> i]
    ELSE MonitorFrom(StatusAfterPoll(status, polls[i]), polls, i + 1)

\* lines 146-166: the status the call returns for the polls of its window
Monitor(polls) ==
    LET m == MonitorFrom("compiling", polls, 1)
    IN  IF m.status \in {"compiled_successfully", "error_during_startup"}
        THEN m
        ELSE [m EXCEPT !.status = "compiling_or_timeout"]

\* what happens when the server is started: Popen raises (spawn_error), or
\* the process is spawned and the window shows polls
Startup(spawn_error, polls) == [spawn_error |-> spawn_error, polls |-> polls]

NoStartup == Startup(FALSE, <<>>)

\* the polls the loop makes: the windows of MaxPolls polls, each cut where the
\* loop leaves it
Startups ==
    {Startup(TRUE, <<>>)} \cup
    {Startup(FALSE, SubSeq(w, 1, Monitor(w).polls)) :
         w \in [1..MaxPolls -> PollKinds]}

\* whether the process is gone when the call returns
ExitedAtStartup(startup) ==
    \E i \in DOMAIN startup.polls : startup.polls[i] = "exited"

\* start_angular_serve_and_get_initial_output with a bug: no test of the slot
start_angular_serve_Unguarded(g, command, working_directory, startup) ==
    LET pid == g.spawned + 1
        started == [g EXCEPT !.NG_SERVE_PROCESS = pid, !.spawned = pid,
                             !.running = IF ExitedAtStartup(startup) THEN @
                                         ELSE @ \cup {pid}]
        status == Monitor(startup.polls).status
    IN  IF working_directory = None /\ ~Truthy(g.CURRENT_PROJECT_PATH)
        THEN Effect(g, Result("Working directory not set.", FALSE, 0, "error",
                              NoProcess), <<>>, FALSE)
        ELSE IF startup.spawn_error \/ g.spawned >= MaxSpawn
        THEN Effect(g, Result("spawn error", FALSE, 0, "error", NoProcess),
                    <<>>, FALSE)
        ELSE Effect(started, Result("initiated", FALSE, 0, status, pid),
                    <<>>, TRUE)

\* start_angular_serve_and_get_initial_output with a bug: a handle in the
\* slot blocks the start, alive or not
start_angular_serve_SlotBlocks(g, command, working_directory, startup) ==
    LET pid == g.spawned + 1
        started == [g EXCEPT !.NG_SERVE_PROCESS = pid, !.spawned = pid,
                             !.running = IF ExitedAtStartup(startup) THEN @
                                         ELSE @ \cup {pid}]
        status == Monitor(startup.polls).status
    IN  IF working_directory = None /\ ~Truthy(g.CURRENT_PROJECT_PATH)
        THEN Effect(g, Result("Working directory not set.", FALSE, 0, "error",
                              NoProcess), <<>>, FALSE)
        ELSE IF g.NG_SERVE_PROCESS # NoProcess
        THEN Effect(g, Result("already running", FALSE, 0, "already_running",
                              g.NG_SERVE_PROCESS), <<>>, FALSE)
        ELSE IF startup.spawn_error \/ g.spawned >= MaxSpawn
        THEN Effect(g, Result("spawn error", FALSE, 0, "error", NoProcess),
                    <<>>, FALSE)
        ELSE Effect(started, Result("initiated", FALSE, 0, status, pid),
                    <<>>, TRUE)

\* start_angular_serve_and_get_initial_output(command, working_directory):
\* startup is what happens when the process is spawned: Popen raises, or the
\* monitoring window shows its polls
start_angular_serve_and_get_initial_output(g, command, working_directory, startup) ==
    LET pid == g.spawned + 1
        started == [g EXCEPT !.NG_SERVE_PROCESS = pid, !.spawned = pid,
                             !.running = IF ExitedAtStartup(startup) THEN @
                                         ELSE @ \cup {pid}]
        status == Monitor(startup.polls).status
    IN  IF working_directory = None /\ ~Truthy(g.CURRENT_PROJECT_PATH)
        THEN Effect(g, Result("Working directory not set.", FALSE, 0, "error",
                              NoProcess), <<>>, FALSE)
        ELSE IF ServeAlive(g)
        THEN Effect(g, Result("already running", FALSE, 0, "already_running",
                              g.NG_SERVE_PROCESS), <<>>, FALSE)
        ELSE IF startup.spawn_error \/ g.spawned >= MaxSpawn
        THEN Effect(g, Result("spawn error", FALSE, 0, "error", NoProcess),
                    <<>>, FALSE)
        ELSE Effect(started, Result("initiated", FALSE, 0, status, pid),
                    <<>>, TRUE)

\* stop_angular_server with a bug: terminate() without the test of the slot
stop_angular_server_Unguarded(g, in_time) ==
    LET stopped == [g EXCEPT !.NG_SERVE_PROCESS = NoProcess,
                             !.running = @ \ {g.NG_SERVE_PROCESS}]
    IN  IF in_time
        THEN Effect(stopped, Result("terminated", FALSE, 0, "stopped",
                                    NoProcess),
                    <<"terminate">>, FALSE)
        ELSE Effect(stopped, Result("killed", FALSE, 0, "killed", NoProcess),
                    <<"terminate", "kill">>, FALSE)

\* stop_angular_server with a bug: the slot keeps the handle of the process
stop_angular_server_KeepsSlot(g, in_time) ==
    LET stopped == [g EXCEPT !.running = @ \ {g.NG_SERVE_PROCESS}]
    IN  IF ServeAlive(g)
        THEN IF in_time
             THEN Effect(stopped, Result("terminated", FALSE, 0, "stopped",
                                         NoProcess),
                         <<"terminate">>, FALSE)
             ELSE Effect(stopped, Result("killed", FALSE, 0, "killed",
                                         NoProcess),
                         <<"terminate", "kill">>, FALSE)
        ELSE Effect(g, Result("not found or not running", FALSE, 0,
                              "not_running", NoProcess), <<>>, FALSE)

\* stop_angular_server(): in_time says whether the process exits within the
\* 5 s of wait() after terminate()
stop_angular_server(g, in_time) ==
    LET stopped == [g EXCEPT !.NG_SERVE_PROCESS = NoProcess,
                             !.running = @ \ {g.NG_SERVE_PROCESS}]
    IN  IF ServeAlive(g)
        THEN IF in_time
             THEN Effect(stopped, Result("terminated", FALSE, 0, "stopped",
                                         NoProcess),
                         <<"terminate">>, FALSE)
             ELSE Effect(stopped, Result("killed", FALSE, 0, "killed",
                                         NoProcess),
                         <<"terminate", "kill">>, FALSE)
        ELSE Effect(g, Result("not found or not running", FALSE, 0,
                              "not_running", NoProcess), <<>>, FALSE)

\* read_file(relative_filepath): the text of the file, or an error text
read_file(g, relative_filepath) ==
    LET full_path == FullPath(g.CURRENT_PROJECT_PATH, relative_filepath)
    IN  IF ~Truthy(g.CURRENT_PROJECT_PATH)
        THEN Effect(g, Result("Error: CURRENT_PROJECT_PATH is not set.", FALSE,
                              0, None, NoProcess), <<>>, FALSE)
        ELSE IF ~PathExists(g.files, full_path)
        THEN Effect(g, Result("Error: File not found", FALSE, 0, None,
                              NoProcess), <<>>, FALSE)
        ELSE IF ~IsFile(g.files, full_path)
        THEN Effect(g, Result("Error reading file", FALSE, 0, None, NoProcess),
                    <<>>, FALSE)
        ELSE Effect(g, [Result("content", FALSE, 0, None, NoProcess)
                            EXCEPT !.text = DecodeText(g.files[full_path].bytes)],
                    <<>>, FALSE)

\* write_file with a bug: no test of the active project path
write_file_NoPathTest(g, relative_filepath, content) ==
    LET full_path == FullPath(g.CURRENT_PROJECT_PATH, relative_filepath)
        failed == Effect(g, Result("False", FALSE, 0, None, NoProcess),
                         <<>>, FALSE)
        made == [d \in Ancestors(full_path) \ DOMAIN g.files |-> DirNode]
    IN  IF \E d \in Ancestors(full_path) : IsFile(g.files, d)
        THEN failed
        ELSE IF IsDirectory(g.files, full_path)
        THEN Effect([g EXCEPT !.files = @ @@ made],
                    Result("False", FALSE, 0, None, NoProcess), <<>>, FALSE)
        ELSE Effect([g EXCEPT !.files =
                         (full_path :> FileNode(EncodeText(content)))
                             @@ @ @@ made],
                    Result("True", FALSE, 0, None, NoProcess), <<>>, FALSE)

\* write_file(relative_filepath, content): True or False.  os.makedirs
\* makes the missing directories above the file (it raises when one of them
\* is a file), open(..., 'w') raises when the path is a directory.
write_file(g, relative_filepath, content) ==
    LET full_path == FullPath(g.CURRENT_PROJECT_PATH, relative_filepath)
        failed == Effect(g, Result("False", FALSE, 0, None, NoProcess),
                         <<>>, FALSE)
        made == [d \in Ancestors(full_path) \ DOMAIN g.files |-> DirNode]
    IN  IF ~Truthy(g.CURRENT_PROJECT_PATH) THEN failed
        ELSE IF \E d \in Ancestors(full_path) : IsFile(g.files, d)
        THEN failed
        ELSE IF IsDirectory(g.files, full_path)
        THEN Effect([g EXCEPT !.files = @ @@ made],
                    Result("False", FALSE, 0, None, NoProcess), <<>>, FALSE)
        ELSE Effect([g EXCEPT !.files =
                         (full_path :> FileNode(EncodeText(content)))
                             @@ @ @@ made],
                    Result("True", FALSE, 0, None, NoProcess), <<>>, FALSE)

\* list_directory_contents(relative_path): the names and types of the
\* entries of the directory
list_directory_contents(g, relative_path) ==
    LET full_path == FullPath(g.CURRENT_PROJECT_PATH, relative_path)
        items == {q \in DOMAIN g.files :
                      Len(q) = Len(full_path) + 1 /\ AtOrBelow(full_path, q)}
    IN  IF ~Truthy(g.CURRENT_PROJECT_PATH)
        THEN Effect(g, Result("CURRENT_PROJECT_PATH is not set.", FALSE, 0,
                              None, NoProcess), <<>>, FALSE)
        ELSE IF ~PathExists(g.files, full_path)
        THEN Effect(g, Result("Directory not found", FALSE, 0, None,
                              NoProcess), <<>>, FALSE)
        ELSE IF ~IsDirectory(g.files, full_path)
        THEN Effect(g, Result("Error listing directory", FALSE, 0, None,
                              NoProcess), <<>>, FALSE)
        ELSE Effect(g, [Result("success", FALSE, 0, None, NoProcess)
                            EXCEPT !.contents =
                                {[name |-> q[Len(q)],
                                  type |-> IF IsDirectory(g.files, q)
                                           THEN "directory" ELSE "file"] :
                                     q \in items}],
                    <<>>, FALSE)

\* delete_file_or_directory with a bug: rmdir in place of shutil.rmtree
delete_file_or_directory_Rmdir(g, relative_path) ==
    LET full_path == FullPath(g.CURRENT_PROJECT_PATH, relative_path)
    IN  IF ~Truthy(g.CURRENT_PROJECT_PATH)
        THEN Effect(g, Result("CURRENT_PROJECT_PATH is not set.", FALSE, 0,
                              "error", NoProcess), <<>>, FALSE)
        ELSE IF ~PathExists(g.files, full_path)
        THEN Effect(g, Result("Path not found", FALSE, 0, "error", NoProcess),
                    <<>>, FALSE)
        ELSE IF \E q \in DOMAIN g.files : q # full_path /\ AtOrBelow(full_path, q)
        THEN Effect(g, Result("Error deleting", FALSE, 0, "error", NoProcess),
                    <<>>, FALSE)
        ELSE Effect([g EXCEPT !.files =
                         [q \in DOMAIN @ \ {full_path} |-> @[q]]],
                    Result("Successfully deleted", FALSE, 0, "success",
                           NoProcess), <<>>, FALSE)

\* delete_file_or_directory(relative_path): os.remove of a file,
\* shutil.rmtree of a directory
delete_file_or_directory(g, relative_path) ==
    LET full_path == FullPath(g.CURRENT_PROJECT_PATH, relative_path)
        removed == IF IsFile(g.files, full_path) THEN {full_path}
                   ELSE {q \in DOMAIN g.files : AtOrBelow(full_path, q)}
    IN  IF ~Truthy(g.CURRENT_PROJECT_PATH)
        THEN Effect(g, Result("CURRENT_PROJECT_PATH is not set.", FALSE, 0,
                              "error", NoProcess), <<>>, FALSE)
        ELSE IF ~PathExists(g.files, full_path)
        THEN Effect(g, Result("Path not found", FALSE, 0, "error", NoProcess),
                    <<>>, FALSE)
        ELSE Effect([g EXCEPT !.files = [q \in DOMAIN @ \ removed |-> @[q]]],
                    Result("Successfully deleted", FALSE, 0, "success",
                           NoProcess), <<>>, FALSE)

\* ask_user_confirmation: the loop reads nothing of its result, and it
\* changes no global
OtherTool(g, name) ==
    Effect(g, Result(name, FALSE, 0, None, NoProcess), <<>>, FALSE)

(***************************************************************************)
(* The utterance and its rewriting (lines 355-389).  A text is a sequence  *)
(* of characters; the fixed parts of a rewritten text are one element each.*)
(***************************************************************************)
\* line 359
serve_keywords ==
    {<<"r", "u", "n", " ", "t", "h", "e", " ", "a", "p", "p">>,
     <<"s", "e", "r", "v", "e", " ", "t", "h", "e", " ", "a", "p", "p">>,
     <<"s", "t", "a", "r", "t", " ", "t", "h", "e", " ", "a", "p", "p">>,
     <<"s", "t", "a", "r", "t", " ", "s", "e", "r", "v", "e", "r">>,
     <<"l", "a", "u", "n", "c", "h", " ", "t", "h", "e", " ", "a", "p", "p">>,
     <<"r", "u", "n", " ", "a", "p", "p">>,
     <<"s", "e", "r", "v", "e", " ", "a", "p", "p">>}

\* line 360
stop_keywords ==
    {<<"s", "t", "o", "p", " ", "s", "e", "r", "v", "e", "r">>,
     <<"k", "i", "l", "l", " ", "s", "e", "r", "v", "e", "r">>,
     <<"t", "e", "r", "m", "i", "n", "a", "t", "e", " ", "s", "e", "r", "v", "e", "r">>,
     <<"s", "t", "o", "p", " ", "t", "h", "e", " ", "d", "e", "v", " ", "s", "e", "r", "v", "e", "r">>}

\* line 361
restart_keywords ==
    {<<"r", "e", "s", "t", "a", "r", "t", " ", "s", "e", "r", "v", "e", "r">>,
     <<"s", "t", "o", "p", " ", "a", "n", "d", " ", "s", "t", "a", "r", "t", " ", "s", "e", "r", "v", "e", "r">>,
     <<"b", "o", "u", "n", "c", "e", " ", "s", "e", "r", "v", "e", "r">>,
     <<"s", "t", "o", "p", " ", "a", "n", "d", " ", "r", "e", "s", "t", "a", "r", "t", " ", "t", "h", "e", " ", "s", "e", "r", "v", "e", "r">>}

\* str.lower() on the letters of the utterances
Lower(text) ==
    LET lower(c) ==
            CASE c = "A" -> "a"
              [] c = "R" -> "r"
              [] c = "S" -> "s"
              [] OTHER -> c
    IN  [i \in DOMAIN text |-> lower(text[i])]

\* keyword in text
Contains(text, keyword) ==
    \E i \in 1..(Len(text) - Len(keyword) + 1) :
        SubSeq(text, i, i + Len(keyword) - 1) = keyword

\* any(keyword in text for keyword in keywords)
AnyIn(keywords, text) == \E keyword \in keywords : Contains(text, keyword)

\* the f-strings of lines 364-371, 374-377 and 380-385
Augmented(implies, user_input) ==
    <<"The user's command is: '">> \o user_input
        \o <<"'. This implies they want to ", implies,
             " the Angular development server. ", "plan for ", implies>>

\* AugmentInput with a bug: the serve keywords are tested first
AugmentInput_ServeFirst(user_input) ==
    LET lower_user_input == Lower(user_input)
    IN  IF AnyIn(serve_keywords, lower_user_input)
        THEN Augmented("start", user_input)
        ELSE IF AnyIn(restart_keywords, lower_user_input)
        THEN Augmented("restart", user_input)
        ELSE IF AnyIn(stop_keywords, lower_user_input)
        THEN Augmented("stop", user_input)
        ELSE user_input

\* lines 355-386: processed_user_input
AugmentInput(user_input) ==
    LET lower_user_input == Lower(user_input)
    IN  IF AnyIn(restart_keywords, lower_user_input)
        THEN Augmented("restart", user_input)
        ELSE IF AnyIn(stop_keywords, lower_user_input)
        THEN Augmented("stop", user_input)
        ELSE IF AnyIn(serve_keywords, lower_user_input)
        THEN Augmented("start", user_input)
        ELSE user_input

\* an utterance, the text of the user turn appended to the transcript and
\* the text passed to send_message (lines 388, 389 and 393: one list)
Intent(user_input) ==
    LET current_user_message_content_parts == AugmentInput(user_input)
    IN  [user_input |-> user_input,
         appended |-> current_user_message_content_parts,
         sent |-> current_user_message_content_parts]

NoIntent == [user_input |-> <<>>, appended |-> <<>>, sent |-> <<>>]

\* what the operator types: one phrase, or two with a blank between
\* phrases with and without keywords
Phrases ==
    {<<"R", "e", "s", "t", "a", "r", "t", " ", "S", "e", "r", "v", "e", "r">>,
     <<"s", "t", "o", "p", " ", "s", "e", "r", "v", "e", "r">>,
     <<"s", "t", "a", "r", "t", " ", "s", "e", "r", "v", "e", "r">>,
     <<"R", "u", "n", " ", "A", "p", "p">>,
     <<"h", "e", "l", "l", "o">>,
     <<"s", "t", "o", "p", " ", "a", "n", "d", " ", "s", "t", "a", "r", "t", " ", "s", "e", "r", "v", "e", "r">>,
     <<"k", "i", "l", "l", " ", " ", "s", "e", "r", "v", "e", "r">>,
     <<"t", "h", "e", " ", "d", "e", "v", " ", "s", "e", "r", "v", "e", "r">>}

Utterances ==
    Phrases \cup {p \o <<" ">> \o q : p \in Phrases, q \in Phrases}

(***************************************************************************)
(* The pipes, reader threads and queues of a server start (lines 51-64 and *)
(* 139-167).  The lines the server writes on a stream are numbered 1, 2,   *)
(* ... in the order it writes them.                                        *)
(***************************************************************************)
Streams == {"stdout", "stderr"}

\* a reader thread: where it is ("readline": in stream.readline(); "put":
\* past the test of line 54 with a line in hand; "closed": past the loop and
\* stream.close()), and the line in hand
Reader(at, line) == [pc |-> at, line |-> line]

\* main: where the thread that called the start is ("none": no start yet;
\* "monitoring": in the loop of lines 147-158; "joining": past
\* stop_event.set(); "draining": past the drain of line 161; "returned")
ServeIo(main, alive, written, pipe, reader, output_queue, printed, dropped, collected, stop_event) ==
    [main |-> main, alive |-> alive, written |-> written, pipe |-> pipe,
     reader |-> reader, output_queue |-> output_queue, printed |-> printed,
     dropped |-> dropped, collected |-> collected, stop_event |-> stop_event]

NoLines == [s \in Streams |-> <<>>]

NoServeIo ==
    ServeIo("none", FALSE, [s \in Streams |-> 0], NoLines,
            [s \in Streams |-> Reader("closed", 0)], NoLines, NoLines,
            NoLines, NoLines, FALSE)

\* lines 139-146: the process is started with two pipes, the queues and the
\* event are created, the two reader threads started
StartedServeIo ==
    ServeIo("monitoring", TRUE, [s \in Streams |-> 0], NoLines,
            [s \in Streams |-> Reader("readline", 0)], NoLines, NoLines,
            NoLines, NoLines, FALSE)

\* line 54: if stop_event.is_set() and output_queue.empty(): break
LeavesLoop(io, s) == io.stop_event /\ io.output_queue[s] = <<>>

\* _read_stream_to_queue_and_print, lines 53-55 and 60: stream.readline()
\* returns the next line of the pipe, or b'' at end of file (the process has
\* exited and the pipe is empty); at end of file, and when the test of line 54
\* holds, the loop is left and the stream closed, and the line in hand is
\* neither printed nor queued
read_stream_readline(io, s) ==
    IF io.pipe[s] = <<>>
    THEN [io EXCEPT !.reader[s] = Reader("closed", 0)]
    ELSE IF LeavesLoop(io, s)
    THEN [io EXCEPT !.pipe[s] = Tail(@),
                    !.dropped[s] = Append(@, Head(io.pipe[s])),
                    !.reader[s] = Reader("closed", 0)]
    ELSE [io EXCEPT !.pipe[s] = Tail(@),
                    !.reader[s] = Reader("put", Head(io.pipe[s]))]

\* a line as it is printed and queued: with the name of its stream
Tagged(stream_name, line) == [stream |-> stream_name, line |-> line]

\* _read_stream_to_queue_and_print, lines 56-59: the line is printed and put
\* in the queue
read_stream_put(io, s) ==
    [io EXCEPT !.printed[s] = Append(@, Tagged(s, io.reader[s].line)),
               !.output_queue[s] = Append(@, Tagged(s, io.reader[s].line)),
               !.reader[s] = Reader("readline", 0)]

\* Collect with a bug: the line is read from the queue and left in it
Collect_Peek(io, s) ==
    [io EXCEPT !.collected[s] = Append(@, Head(io.output_queue[s]))]

\* lines 151, 154, 161 and 162: get_nowait() takes the oldest line of a queue,
\* and the line is appended to the collected ones
Collect(io, s) ==
    [io EXCEPT !.collected[s] = Append(@, Head(io.output_queue[s])),
               !.output_queue[s] = Tail(@)]

(***************************************************************************)
(* State.                                                                  *)
(***************************************************************************)
VARIABLES
    CURRENT_PROJECT_PATH,       \* the active project path, or None
    NG_SERVE_PROCESS,           \* pid of the Popen handle in the slot, or NoProcess
    running,                    \* pids of the spawned processes that have not exited
    files,                      \* the filesystem
    spawned,                    \* number of processes Popen has started
    chat_session,               \* number of the current chat session (0: None)
    system_prompt_path,         \* the path the session's standing instructions name
    conversation_history_for_this_run,
    pc,                         \* "prompt": at the input prompt of the main loop;
                                \* "dispatch": in the for loop over the calls;
                                \* "send": after the for loop, before line 505
    function_calls_from_last_model_turn,
    fc_index,                   \* position of the for loop in the calls
    tool_response_parts_for_api,
    current_fix_attempt,
    original_failed_command_details, \* the tracked command string, or None
    llm,                        \* the family of requests of this run's LLM
    utterances,                 \* user utterances processed so far
    rounds,                     \* tool-result turns sent so far
    turn_outcome,               \* how the last process_user_command ended
    last_dispatch,              \* what the last dispatched call did
    aborted_commands,           \* commands the loop printed 'Aborting' for in
                                \* this utterance (line 499)
    file_call,                  \* the last direct call of a file tool
    file_calls,                 \* number of direct calls of file tools
    last_response,              \* the latest response of the model in the
                                \* turn in progress, as send_message returned it
    intent,                     \* the last utterance and what lines 355-393
                                \* made of it
    serve_io                    \* the pipes, reader threads and queues of a
                                \* server start (lines 51-64, 139-167)

vars == <<CURRENT_PROJECT_PATH, NG_SERVE_PROCESS, running, spawned, files,
          file_call, file_calls, last_response, intent, serve_io,
          chat_session,
          system_prompt_path, conversation_history_for_this_run, pc,
          function_calls_from_last_model_turn, fc_index,
          tool_response_parts_for_api, current_fix_attempt,
          original_failed_command_details, llm, utterances, rounds,
          turn_outcome, last_dispatch, aborted_commands>>

\* the globals the tools read and write
Globals ==
    [CURRENT_PROJECT_PATH |-> CURRENT_PROJECT_PATH,
     NG_SERVE_PROCESS |-> NG_SERVE_PROCESS,
     running |-> running, spawned |-> spawned, files |-> files]

\* what the environment answers to a call: the exit status of a command,
\* whether 'ng new' left its project directory, whether the operator names
\* an existing parent directory, how the server starts, whether it stops in
\* time
Answer(exit_code, created, parent_is_dir, startup, in_time) ==
    [exit_code |-> exit_code, created |-> created,
     parent_is_dir |-> parent_is_dir, startup |-> startup,
     in_time |-> in_time]

NoAnswer == Answer(0, FALSE, FALSE, NoStartup, TRUE)

Answers(fc) ==
    CASE fc.name = "execute_shell_command" /\ ContainsNgNew(fc.args.command) ->
           {Answer(e, c, d, NoStartup, TRUE) :
                e \in {0, 1}, c \in BOOLEAN, d \in BOOLEAN}
      [] fc.name = "execute_shell_command" ->
           {Answer(e, FALSE, FALSE, NoStartup, TRUE) : e \in {0, 1}}
      [] fc.name = "start_angular_serve_and_get_initial_output" ->
           {Answer(0, FALSE, FALSE, s, TRUE) : s \in Startups}
      [] fc.name = "stop_angular_server" ->
           {Answer(0, FALSE, FALSE, NoStartup, t) : t \in BOOLEAN}
      [] OTHER -> {NoAnswer}

\* what a dispatch did: the call, what the environment answered to it,
\* whether its tool implementation was invoked, the signals it sent, whether
\* it ran a process, whether it raised
Dispatched(fc, answer, invoked, signals, ran, raised) ==
    [fc |-> fc, answer |-> answer, invoked |-> invoked, signals |-> signals,
     ran |-> ran, raised |-> raised]

NoDispatch ==
    Dispatched(Call("", NoArgs), NoAnswer, FALSE, <<>>, FALSE, FALSE)

\* a direct call of a file tool: the tool, its arguments, what it returned
FileCall(name, relative_path, content, result) ==
    [name |-> name, relative_path |-> relative_path, content |-> content,
     result |-> result]

NoFileCall == FileCall("", RelPath(<<>>), <<>>, NoResult)

\* a response of the model: whether it holds a text part, and its tool-call
\* requests in order
Response(text, calls) == [text |-> text, calls |-> calls]

NoResponse == Response(FALSE, <<>>)

(***************************************************************************)
(* __main__ up to the first prompt: the operator names an existing project *)
(* directory or none, and initialize_global_chat_session() runs.           *)
(***************************************************************************)
Init ==
    /\ CURRENT_PROJECT_PATH \in {None, WorkDir}
    /\ NG_SERVE_PROCESS = NoProcess
    /\ running = {}
    /\ spawned = 0
    /\ files = InitialFiles
    /\ file_call = NoFileCall
    /\ file_calls = 0
    /\ last_response = NoResponse
    /\ intent = NoIntent
    /\ serve_io = NoServeIo
    /\ chat_session = 1
    /\ system_prompt_path = CURRENT_PROJECT_PATH
    /\ conversation_history_for_this_run = initial_history_for_session
    /\ pc = "prompt"
    /\ function_calls_from_last_model_turn = <<>>
    /\ fc_index = 1
    /\ tool_response_parts_for_api = <<>>
    /\ current_fix_attempt = 0
    /\ original_failed_command_details = None
    /\ llm \in Profiles
    /\ utterances = 0
    /\ rounds = 0
    /\ turn_outcome = "none"
    /\ last_dispatch = NoDispatch
    /\ aborted_commands = {}

\* FunctionCallsOf with a bug: the calls are taken last first
FunctionCallsOf_Reversed(history) ==
    LET last == history[Len(history)]
        calls == SelectSeq(last.parts, LAMBDA part : part.kind = "function_call")
    IN  IF last.role = "model"
        THEN [i \in DOMAIN calls |->
                  Call(calls[Len(calls) + 1 - i].name,
                       calls[Len(calls) + 1 - i].args)]
        ELSE <<>>

(***************************************************************************)
(* The head of the while loop (lines 408-419) on a transcript: the calls   *)
(* of its last turn when that is a model turn.                             *)
(***************************************************************************)
FunctionCallsOf(history) ==
    LET last == history[Len(history)]
        calls == SelectSeq(last.parts, LAMBDA part : part.kind = "function_call")
    IN  IF last.role = "model"
        THEN [i \in DOMAIN calls |-> Call(calls[i].name, calls[i].args)]
        ELSE <<>>

\* Lines 395-403 and 518-523: the response is logged unless it has no part.
LogModelResponse(history, text, calls) ==
    IF ModelParts(text, calls) # <<>>
    THEN HistoryAppend(history, Turn("model", ModelParts(text, calls)))
    ELSE history

\* LoopHead with a bug: a response that holds a text ends the turn
LoopHead_TextEndsTurn(history) ==
    /\ function_calls_from_last_model_turn' = FunctionCallsOf(history)
    /\ fc_index' = 1
    /\ tool_response_parts_for_api' = <<>>
    /\ IF \/ FunctionCallsOf(history) = <<>>
          \/ history[Len(history)].parts[1].kind = "text"
       THEN pc' = "prompt" /\ turn_outcome' = "completed"
       ELSE pc' = "dispatch" /\ turn_outcome' = "none"

\* Lines 408-419 and, when the last turn holds no call, 526-535: either the
\* for loop starts on the calls or the turn ends and the prompt is next.
LoopHead(history) ==
    /\ function_calls_from_last_model_turn' = FunctionCallsOf(history)
    /\ fc_index' = 1
    /\ tool_response_parts_for_api' = <<>>
    /\ IF FunctionCallsOf(history) = <<>>
       THEN pc' = "prompt" /\ turn_outcome' = "completed"
       ELSE pc' = "dispatch" /\ turn_outcome' = "none"

\* the tool-result turns after which the LLM requests nothing more
RoundsOf(profile) ==
    IF profile \in {"serve", "new"} THEN MaxLongRounds ELSE MaxRounds

\* the requests of a response of the LLM, with a text or without: at most
\* MaxBatch parts in all, and no request once sent tool-result turns have been
\* sent RoundsOf(llm) times
ResponseCalls(text, sent) ==
    Batches(llm, IF sent < RoundsOf(llm)
                 THEN MaxBatch - (IF text THEN 1 ELSE 0) ELSE 0)

\* ModelException with a bug: the except clause starts the transcript afresh
ModelException_Rollback(history) ==
    /\ conversation_history_for_this_run' = initial_history_for_session
    /\ pc' = "prompt"
    /\ turn_outcome' = "model_exception"
    /\ last_response' = NoResponse
    /\ function_calls_from_last_model_turn' = <<>>
    /\ fc_index' = 1
    /\ tool_response_parts_for_api' = <<>>

\* chat_session.send_message raises (line 393 or 516) on the transcript
\* history: the except clause of lines 537-539 prints the error and
\* process_user_command returns; the locals of the turn are gone
ModelException(history) ==
    /\ conversation_history_for_this_run' = history
    /\ pc' = "prompt"
    /\ turn_outcome' = "model_exception"
    /\ last_response' = NoResponse
    /\ function_calls_from_last_model_turn' = <<>>
    /\ fc_index' = 1
    /\ tool_response_parts_for_api' = <<>>

\* lines 405-406: the tracker as the turn starts with it
InitialTracker_Stale ==
    [current_fix_attempt |-> current_fix_attempt,
     original_failed_command_details |-> original_failed_command_details]

InitialTracker ==
    [current_fix_attempt |-> 0, original_failed_command_details |-> None]

(***************************************************************************)
(* process_user_command(user_input), lines 342-417: the user turn is       *)
(* appended and sent; send_message raises (the turn is abandoned in the    *)
(* except clause of line 537) or returns a response.                       *)
(***************************************************************************)
ProcessUserCommandOn(said) ==
    /\ pc = "prompt"
    /\ utterances < MaxUtterances
    /\ utterances' = utterances + 1
    /\ intent' = said
    /\ aborted_commands' = {}
    /\ last_dispatch' = NoDispatch
    /\ LET history == HistoryAppend(conversation_history_for_this_run,
                                    Turn("user", <<TextPart>>))
       IN  \/ /\ ModelException(history)
              /\ UNCHANGED <<current_fix_attempt,
                             original_failed_command_details>>
           \/ \E text \in BOOLEAN :
              \E calls \in ResponseCalls(text, rounds) :
                /\ last_response' = Response(text, calls)
                /\ conversation_history_for_this_run' =
                       LogModelResponse(history, text, calls)
                /\ current_fix_attempt' = InitialTracker.current_fix_attempt
                /\ original_failed_command_details' =
                       InitialTracker.original_failed_command_details
                /\ LoopHead(LogModelResponse(history, text, calls))
    /\ UNCHANGED <<CURRENT_PROJECT_PATH, NG_SERVE_PROCESS, running, spawned,
                   files, file_call, file_calls, serve_io,
                   chat_session, system_prompt_path, llm, rounds>>

\* process_user_command on an utterance whose text the model leaves open
ProcessUserCommand == ProcessUserCommandOn(intent)

(***************************************************************************)
(* The dispatch of one call (lines 421-479).                               *)
(***************************************************************************)
\* what a dispatch comes to: it raised or returned result; the arguments as
\* the dispatch left them; the globals afterwards; whether the tool was
\* invoked; whether initialize_global_chat_session() ran
Outcome(raised, invoked, args, eff, reinit) ==
    [raised |-> raised, invoked |-> invoked, args |-> args, g |-> eff.g,
     result |-> eff.result, signals |-> eff.signals, ran |-> eff.ran,
     reinit |-> reinit]

\* tool_function(**tool_args_dict), line 471 (and 449, 451)
CallTool(g, name, args, answer) ==
    CASE name = "execute_shell_command" ->
           execute_shell_command(g, args.command, args.working_directory,
                                 answer.exit_code, answer.created)
      [] name = "start_angular_serve_and_get_initial_output" ->
           start_angular_serve_and_get_initial_output(
               g, args.command, args.working_directory, answer.startup)
      [] name = "stop_angular_server" -> stop_angular_server(g, answer.in_time)
      [] name = "read_file" -> read_file(g, args.relative_path)
      [] name = "write_file" ->
           write_file(g, args.relative_path, args.content)
      [] name = "list_directory_contents" ->
           list_directory_contents(g, args.relative_path)
      [] name = "delete_file_or_directory" ->
           delete_file_or_directory(g, args.relative_path)
      [] OTHER -> OtherTool(g, name)

\* UnknownToolDispatch with a bug: the registry is indexed without the test
\* of line 427 and the KeyError leaves the loop
UnknownToolDispatch_KeyError(g, fc) ==
    Outcome(TRUE, FALSE, fc.args, Effect(g, NoResult, <<>>, FALSE), FALSE)

\* lines 427-429: a name that is not in the registry
UnknownToolDispatch(g, fc) ==
    Outcome(FALSE, FALSE, fc.args,
            Effect(g, Result("Unknown tool", FALSE, 0, None, NoProcess),
                   <<>>, FALSE),
            FALSE)

\* lines 470-471: any other registered call
PlainDispatch(g, fc, answer) ==
    IF Accepts(fc.name, fc.args)
    THEN Outcome(FALSE, TRUE, fc.args, CallTool(g, fc.name, fc.args, answer),
                 FALSE)
    ELSE Outcome(TRUE, FALSE, fc.args, Effect(g, NoResult, <<>>, FALSE), FALSE)

\* lines 433-469: execute_shell_command with "ng new" in its command
NgNewDispatch(g, fc, answer) ==
    LET cmd_to_run == fc.args.command
        project_name == LoopProjectName(cmd_to_run)
        working_dir_from_llm == fc.args.working_directory
        prompted == ~Truthy(working_dir_from_llm)
        invalid == prompted /\ ~answer.parent_is_dir
        actual_exec_dir ==
            IF prompted /\ answer.parent_is_dir THEN ParentDir
            ELSE working_dir_from_llm
        args == [fc.args EXCEPT !.working_directory =
                     IF prompted /\ answer.parent_is_dir THEN ParentDir ELSE @]
        eff == IF invalid
               THEN Effect(g, Result("Invalid parent directory for 'ng new'",
                                     TRUE, 1, None, NoProcess), <<>>, FALSE)
               ELSE CallTool(g, fc.name, args, answer)
        new_project_full_path == PathJoin(actual_exec_dir, project_name)
        updates ==
            /\ eff.result.has_exit_code /\ eff.result.exit_code = 0
            /\ Truthy(project_name) /\ Truthy(actual_exec_dir)
            /\ IsDir(new_project_full_path, answer.created)
        old_project_path == eff.g.CURRENT_PROJECT_PATH
        updated ==
            Effect([eff.g EXCEPT !.CURRENT_PROJECT_PATH = new_project_full_path],
                   [eff.result EXCEPT
                        !.new_project_path_set = new_project_full_path],
                   eff.signals, eff.ran)
    IN  IF ~invalid /\ ~Accepts(fc.name, args)
        THEN Outcome(TRUE, FALSE, args, Effect(g, NoResult, <<>>, FALSE), FALSE)
        ELSE IF updates
        THEN Outcome(FALSE, TRUE, args, updated,
                     old_project_path # new_project_full_path)
        ELSE Outcome(FALSE, ~invalid, args, eff, FALSE)

\* lines 427-471
Dispatch(g, fc, answer) ==
    IF fc.name \notin available_tools_python_functions
    THEN UnknownToolDispatch(g, fc)
    ELSE IF /\ fc.name = "execute_shell_command"
            /\ fc.args.command # None
            /\ ContainsNgNew(fc.args.command)
    THEN NgNewDispatch(g, fc, answer)
    ELSE PlainDispatch(g, fc, answer)

(***************************************************************************)
(* The error-recovery tracker (lines 481-503).                             *)
(***************************************************************************)
\* function_result_dict.get("exit_code", 0)
ExitCodeOr0(result) == IF result.has_exit_code THEN result.exit_code ELSE 0

\* Classify with a bug: a start that timed out counts as a failure
Classify_TimeoutIsError(tool_name, args, result) ==
    IF tool_name = "execute_shell_command" /\ ExitCodeOr0(result) # 0
    THEN [is_error |-> TRUE, command_that_failed |-> args.command]
    ELSE IF /\ tool_name = "start_angular_serve_and_get_initial_output"
            /\ result.status \in {"error_during_startup",
                                  "compiling_or_timeout"}
    THEN [is_error |-> TRUE, command_that_failed |-> args.command]
    ELSE IF /\ tool_name = "delete_file_or_directory"
            /\ result.status = "error"
    THEN [is_error |-> TRUE, command_that_failed |-> None]
    ELSE [is_error |-> FALSE, command_that_failed |-> None]

\* lines 481-489: is_error and command_that_failed
Classify(tool_name, args, result) ==
    IF tool_name = "execute_shell_command" /\ ExitCodeOr0(result) # 0
    THEN [is_error |-> TRUE, command_that_failed |-> args.command]
    ELSE IF /\ tool_name = "start_angular_serve_and_get_initial_output"
            /\ result.status = "error_during_startup"
    THEN [is_error |-> TRUE, command_that_failed |-> args.command]
    ELSE IF /\ tool_name = "delete_file_or_directory"
            /\ result.status = "error"
    THEN [is_error |-> TRUE, command_that_failed |-> None]
    ELSE [is_error |-> FALSE, command_that_failed |-> None]

Tracker(attempt, details, aborted) ==
    [current_fix_attempt |-> attempt,
     original_failed_command_details |-> details, aborted |-> aborted]

\* TrackResult with a bug: a success of the tracked command does not clear it
TrackResult_NoReset(attempt, details, tool_name, args, result) ==
    LET c == Classify(tool_name, args, result)
        fresh == details = None \/ details # c.command_that_failed
        tracked == IF fresh THEN c.command_that_failed ELSE details
        counted == IF fresh THEN 0 ELSE attempt
    IN  IF c.is_error /\ Truthy(c.command_that_failed)
        THEN IF counted < MAX_ERROR_FIX_ATTEMPTS
             THEN Tracker(counted + 1, tracked, FALSE)
             ELSE Tracker(counted, None, TRUE)
        ELSE Tracker(attempt, details, FALSE)

\* TrackResult with a bug: at the ceiling the tracked command is kept
TrackResult_NoDrop(attempt, details, tool_name, args, result) ==
    LET c == Classify(tool_name, args, result)
        fresh == details = None \/ details # c.command_that_failed
        tracked == IF fresh THEN c.command_that_failed ELSE details
        counted == IF fresh THEN 0 ELSE attempt
    IN  IF c.is_error /\ Truthy(c.command_that_failed)
        THEN IF counted < MAX_ERROR_FIX_ATTEMPTS
             THEN Tracker(counted + 1, tracked, FALSE)
             ELSE Tracker(counted, tracked, TRUE)
        ELSE IF ~c.is_error /\ details # None /\ args.command = details
        THEN Tracker(0, None, FALSE)
        ELSE Tracker(attempt, details, FALSE)

\* TrackResult with a bug: a new failing command inherits the counter
TrackResult_NoRestart(attempt, details, tool_name, args, result) ==
    LET c == Classify(tool_name, args, result)
        fresh == details = None \/ details # c.command_that_failed
        tracked == IF fresh THEN c.command_that_failed ELSE details
    IN  IF c.is_error /\ Truthy(c.command_that_failed)
        THEN IF attempt < MAX_ERROR_FIX_ATTEMPTS
             THEN Tracker(attempt + 1, tracked, FALSE)
             ELSE Tracker(attempt, None, TRUE)
        ELSE IF ~c.is_error /\ details # None /\ args.command = details
        THEN Tracker(0, None, FALSE)
        ELSE Tracker(attempt, details, FALSE)

\* TrackResult with a bug: no test of the ceiling
TrackResult_Unbounded(attempt, details, tool_name, args, result) ==
    LET c == Classify(tool_name, args, result)
        fresh == details = None \/ details # c.command_that_failed
        tracked == IF fresh THEN c.command_that_failed ELSE details
        counted == IF fresh THEN 0 ELSE attempt
    IN  IF c.is_error /\ Truthy(c.command_that_failed)
        THEN Tracker(counted + 1, tracked, FALSE)
        ELSE IF ~c.is_error /\ details # None /\ args.command = details
        THEN Tracker(0, None, FALSE)
        ELSE Tracker(attempt, details, FALSE)

\* TrackResult with a bug: any result that is no error clears the tracker
TrackResult_AnySuccessClears(attempt, details, tool_name, args, result) ==
    LET c == Classify(tool_name, args, result)
        fresh == details = None \/ details # c.command_that_failed
        tracked == IF fresh THEN c.command_that_failed ELSE details
        counted == IF fresh THEN 0 ELSE attempt
    IN  IF c.is_error /\ Truthy(c.command_that_failed)
        THEN IF counted < MAX_ERROR_FIX_ATTEMPTS
             THEN Tracker(counted + 1, tracked, FALSE)
             ELSE Tracker(counted, None, TRUE)
        ELSE IF ~c.is_error /\ details # None
        THEN Tracker(0, None, FALSE)
        ELSE Tracker(attempt, details, FALSE)

\* lines 491-503 on the tracker (attempt, details): the tracker afterwards,
\* and whether the loop printed that the maximum is reached
TrackResult(attempt, details, tool_name, args, result) ==
    LET c == Classify(tool_name, args, result)
        fresh == details = None \/ details # c.command_that_failed
        tracked == IF fresh THEN c.command_that_failed ELSE details
        counted == IF fresh THEN 0 ELSE attempt
    IN  IF c.is_error /\ Truthy(c.command_that_failed)
        THEN IF counted < MAX_ERROR_FIX_ATTEMPTS
             THEN Tracker(counted + 1, tracked, FALSE)
             ELSE Tracker(counted, None, TRUE)
        ELSE IF ~c.is_error /\ details # None /\ args.command = details
        THEN Tracker(0, None, FALSE)
        ELSE Tracker(attempt, details, FALSE)

(***************************************************************************)
(* initialize_global_chat_session() (lines 275-339)                        *)
(***************************************************************************)
\* initialize_global_chat_session with a bug: the session in use is kept
initialize_global_chat_session_SameSession(path) ==
    /\ chat_session' = chat_session
    /\ system_prompt_path' = path

\* a new session is started on instructions that name the path
initialize_global_chat_session(path) ==
    /\ chat_session' = chat_session + 1
    /\ system_prompt_path' = path

\* tool_args_dict["working_directory"] = actual_exec_dir (line 448) writes
\* the dict that the model turn of the transcript holds, while it holds it
RewriteArgs(history, index, args) ==
    LET n == Len(history)
        last == history[n]
        k == index + (IF last.parts # <<>> /\ last.parts[1].kind = "text"
                      THEN 1 ELSE 0)
    IN  IF /\ last.role = "model" /\ k \in DOMAIN last.parts
           /\ last.parts[k].kind = "function_call"
        THEN [history EXCEPT ![n].parts[k].args = args]
        ELSE history

(***************************************************************************)
(* One pass of the for loop, lines 421-503: the call is dispatched, its    *)
(* result part collected, the tracker updated.  A call that raises leaves  *)
(* the try block: the except clause (line 537) ends the turn.              *)
(***************************************************************************)
DispatchToolCall ==
    /\ pc = "dispatch"
    /\ LET fc == function_calls_from_last_model_turn[fc_index]
       IN  \E answer \in Answers(fc) :
             LET o == Dispatch(Globals, fc, answer)
                 t == TrackResult(current_fix_attempt,
                                  original_failed_command_details,
                                  fc.name, o.args, o.result)
             IN  /\ CURRENT_PROJECT_PATH' = o.g.CURRENT_PROJECT_PATH
                 /\ NG_SERVE_PROCESS' = o.g.NG_SERVE_PROCESS
                 /\ running' = o.g.running
                 /\ spawned' = o.g.spawned
                 /\ files' = o.g.files
                 /\ last_dispatch' =
                        Dispatched(fc, answer, o.invoked, o.signals, o.ran,
                                   o.raised)
                 /\ function_calls_from_last_model_turn' =
                        IF o.raised THEN <<>>
                        ELSE [function_calls_from_last_model_turn
                                  EXCEPT ![fc_index].args = o.args]
                 /\ IF o.reinit
                    THEN /\ initialize_global_chat_session(
                                o.g.CURRENT_PROJECT_PATH)
                         /\ conversation_history_for_this_run' =
                                initial_history_for_session
                    ELSE /\ UNCHANGED <<chat_session, system_prompt_path>>
                         /\ conversation_history_for_this_run' =
                                RewriteArgs(conversation_history_for_this_run,
                                            fc_index, o.args)
                 /\ IF o.raised
                    THEN /\ pc' = "prompt"
                         /\ turn_outcome' = "tool_exception"
                         /\ fc_index' = 1
                         /\ tool_response_parts_for_api' = <<>>
                         /\ UNCHANGED <<current_fix_attempt,
                                        original_failed_command_details,
                                        aborted_commands>>
                    ELSE /\ tool_response_parts_for_api' =
                                Append(tool_response_parts_for_api,
                                       ResponsePart(fc.name, o.result))
                         /\ current_fix_attempt' = t.current_fix_attempt
                         /\ original_failed_command_details' =
                                t.original_failed_command_details
                         /\ aborted_commands' =
                                IF t.aborted
                                THEN aborted_commands \cup {o.args.command}
                                ELSE aborted_commands
                         /\ fc_index' = fc_index + 1
                         /\ pc' = IF fc_index =
                                        Len(function_calls_from_last_model_turn)
                                  THEN "send" ELSE "dispatch"
                         /\ UNCHANGED turn_outcome
    /\ last_response' = IF last_dispatch'.raised THEN NoResponse
                        ELSE last_response
    /\ UNCHANGED <<llm, utterances, rounds, file_call, file_calls, intent,
                   serve_io>>

(***************************************************************************)
(* Lines 505-524 and the loop head: the tool-result turn is appended and   *)
(* sent; send_message raises or returns the next response.                 *)
(***************************************************************************)
SendToolResults ==
    /\ pc = "send"
    /\ rounds' = rounds + 1
    /\ last_dispatch' = NoDispatch
    /\ LET history == HistoryAppend(conversation_history_for_this_run,
                                    Turn("tool", tool_response_parts_for_api))
       IN  \/ ModelException(history)
           \/ \E text \in BOOLEAN :
              \E calls \in ResponseCalls(text, rounds + 1) :
                /\ last_response' = Response(text, calls)
                /\ conversation_history_for_this_run' =
                       LogModelResponse(history, text, calls)
                /\ LoopHead(LogModelResponse(history, text, calls))
    /\ UNCHANGED <<CURRENT_PROJECT_PATH, NG_SERVE_PROCESS, running, spawned,
                   files, file_call, file_calls, intent, serve_io,
                   chat_session, system_prompt_path, current_fix_attempt,
                   original_failed_command_details, llm, utterances,
                   aborted_commands>>

(***************************************************************************)
(* The environment: a supervised process exits on its own.                 *)
(***************************************************************************)
ProcessExits ==
    /\ \E pid \in running : running' = running \ {pid}
    /\ UNCHANGED <<CURRENT_PROJECT_PATH, NG_SERVE_PROCESS, spawned, files,
                   file_call, file_calls, last_response, intent, serve_io,
                   chat_session,
                   system_prompt_path, conversation_history_for_this_run, pc,
                   function_calls_from_last_model_turn, fc_index,
                   tool_response_parts_for_api, current_fix_attempt,
                   original_failed_command_details, llm, utterances, rounds,
                   turn_outcome, last_dispatch, aborted_commands>>

(***************************************************************************)
(* The end of the session (lines 576-578 and 599-611): the operator types  *)
(* 'exit', or input() raises; the finally clause terminates the process of *)
(* the slot when it is alive, waits 5 seconds for it and kills it when it  *)
(* has not exited by then.  The interpreter exits: the locals of the turn  *)
(* are gone and no turn has just ended.                                    *)
(***************************************************************************)
\* teardown with a bug: a process that does not exit in time is left alone
teardown_NoKill(g, in_time) ==
    IF ServeAlive(g)
    THEN Effect(IF in_time
                THEN [g EXCEPT !.running = @ \ {g.NG_SERVE_PROCESS}]
                ELSE g,
                NoResult, <<"terminate">>, FALSE)
    ELSE Effect(g, NoResult, <<>>, FALSE)

\* lines 600-610
teardown(g, in_time) ==
    IF ServeAlive(g)
    THEN Effect([g EXCEPT !.running = @ \ {g.NG_SERVE_PROCESS}], NoResult,
                IF in_time THEN <<"terminate">> ELSE <<"terminate", "kill">>,
                FALSE)
    ELSE Effect(g, NoResult, <<>>, FALSE)

ExitSession ==
    /\ pc = "prompt"
    /\ pc' = "done"
    /\ \E in_time \in (IF ServeAlive(Globals) THEN BOOLEAN ELSE {TRUE}) :
         LET e == teardown(Globals, in_time)
         IN  /\ running' = e.g.running
             /\ last_dispatch' =
                    Dispatched(Call("", NoArgs),
                               Answer(0, FALSE, FALSE, NoStartup, in_time),
                               FALSE, e.signals, FALSE, FALSE)
    /\ last_response' = NoResponse
    /\ current_fix_attempt' = 0
    /\ original_failed_command_details' = None
    /\ aborted_commands' = {}
    /\ turn_outcome' = "none"
    /\ UNCHANGED <<CURRENT_PROJECT_PATH, NG_SERVE_PROCESS, spawned, files,
                   file_call, file_calls, intent, serve_io, chat_session,
                   system_prompt_path, conversation_history_for_this_run,
                   function_calls_from_last_model_turn, fc_index,
                   tool_response_parts_for_api, llm, utterances, rounds>>

Next ==
    \/ ProcessUserCommand
    \/ DispatchToolCall
    \/ SendToolResults
    \/ ProcessExits
    \/ ExitSession

Spec == Init /\ [][Next]_vars

(***************************************************************************)
(* The turn loop alone, under the scheduling of the code: the for loop and *)
(* the send of the tool results are straight-line code of one thread, so a *)
(* step of them that is possible is taken.                                 *)
(***************************************************************************)
TurnInit == Init /\ llm \in {"retry", "misc"}

TurnNext == ProcessUserCommand \/ DispatchToolCall \/ SendToolResults

TurnSpec ==
    /\ TurnInit
    /\ [][TurnNext]_vars
    /\ WF_vars(DispatchToolCall)
    /\ WF_vars(SendToolResults)

(***************************************************************************)
(* process_user_command on the utterances the operator types.              *)
(***************************************************************************)
ProcessUtterance ==
    \E user_input \in Utterances : ProcessUserCommandOn(Intent(user_input))

IntentInit == Init /\ llm = "retry"

IntentNext == ProcessUtterance

IntentSpec == IntentInit /\ [][IntentNext]_vars

(***************************************************************************)
(* One server start with its reader threads (lines 51-64, 139-167): the    *)
(* server writes lines on its streams and may exit; each reader thread     *)
(* reads its stream; the calling thread monitors, ends the window, drains  *)
(* the queues and returns.                                                 *)
(***************************************************************************)
\* a step to the state io of the start: line 139 puts the process started
\* in the slot; a process that exits is no longer running
ServeIoStep(io) ==
    /\ serve_io' = io
    /\ NG_SERVE_PROCESS' = IF serve_io.main = "none" THEN spawned + 1
                           ELSE NG_SERVE_PROCESS
    /\ spawned' = IF serve_io.main = "none" THEN spawned + 1 ELSE spawned
    /\ running' = IF io.alive THEN {NG_SERVE_PROCESS'} ELSE {}
    /\ UNCHANGED <<CURRENT_PROJECT_PATH,
                   files, file_call, file_calls, last_response, intent,
                   chat_session, system_prompt_path,
                   conversation_history_for_this_run, pc,
                   function_calls_from_last_model_turn, fc_index,
                   tool_response_parts_for_api, current_fix_attempt,
                   original_failed_command_details, llm, utterances, rounds,
                   turn_outcome, last_dispatch, aborted_commands>>

\* lines 139-146
StartServe ==
    /\ serve_io.main = "none"
    /\ ServeIoStep(StartedServeIo)

\* the server writes its next line on a stream; a stream the reader has
\* closed takes no line
ServerWrites ==
    \E s \in Streams :
        /\ serve_io.alive
        /\ serve_io.written[s] < MaxLines
        /\ ServeIoStep(
               IF serve_io.reader[s].pc = "closed"
               THEN [serve_io EXCEPT !.written[s] = @ + 1]
               ELSE [serve_io EXCEPT !.written[s] = @ + 1,
                                     !.pipe[s] = Append(@, serve_io.written[s] + 1)])

ServerExits ==
    /\ serve_io.alive
    /\ ServeIoStep([serve_io EXCEPT !.alive = FALSE])

\* stream.readline() returns: a line, or b'' once the server has exited
ReaderReadline ==
    \E s \in Streams :
        /\ serve_io.reader[s].pc = "readline"
        /\ serve_io.pipe[s] # <<>> \/ ~serve_io.alive
        /\ ServeIoStep(read_stream_readline(serve_io, s))

ReaderPut ==
    \E s \in Streams :
        /\ serve_io.reader[s].pc = "put"
        /\ ServeIoStep(read_stream_put(serve_io, s))

\* the monitoring loop takes a line from a queue (lines 150-155)
MonitorPoll ==
    /\ serve_io.main = "monitoring"
    /\ \E s \in Streams :
          /\ serve_io.output_queue[s] # <<>>
          /\ ServeIoStep(Collect(serve_io, s))

\* the window ends (lines 147, 148, 157) and line 159 sets the event
WindowEnds ==
    /\ serve_io.main = "monitoring"
    /\ ServeIoStep([serve_io EXCEPT !.main = "joining", !.stop_event = TRUE])

\* lines 160-161: the joins have returned (the threads have ended, or a
\* second has passed for each); one pass of the while loop of line 161, which
\* takes a line from the queue of stdout or finds it empty
DrainStdout ==
    /\ serve_io.main = "joining"
    /\ ServeIoStep(IF serve_io.output_queue["stdout"] # <<>>
                   THEN Collect(serve_io, "stdout")
                   ELSE [serve_io EXCEPT !.main = "draining"])

\* lines 162-167: one pass of the while loop of line 162; when the queue of
\* stderr is empty the start returns
DrainStderr ==
    /\ serve_io.main = "draining"
    /\ ServeIoStep(IF serve_io.output_queue["stderr"] # <<>>
                   THEN Collect(serve_io, "stderr")
                   ELSE [serve_io EXCEPT !.main = "returned"])

ReaderInit == Init /\ llm = "serve" /\ CURRENT_PROJECT_PATH = WorkDir

ReaderNext ==
    \/ StartServe
    \/ ServerWrites
    \/ ServerExits
    \/ ReaderReadline
    \/ ReaderPut
    \/ MonitorPoll
    \/ WindowEnds
    \/ DrainStdout
    \/ DrainStderr

ReaderSpec == ReaderInit /\ [][ReaderNext]_vars

\* the same under the scheduling of the calling thread: lines 160-167 are
\* straight-line code with joins that time out, so a step of them that is
\* possible is taken; nothing is assumed of the server and the readers
ReaderFairSpec ==
    /\ ReaderInit
    /\ [][ReaderNext]_vars
    /\ WF_vars(DrainStdout)
    /\ WF_vars(DrainStderr)

(***************************************************************************)
(* The file tools called directly, as the dispatch of line 471 calls them, *)
(* on paths and texts of bounded sets: paths inside the project (a file, a *)
(* directory, a file below a directory that does not exist yet, a path     *)
(* that does not exist) and outside it (through "..", and absolute); the   *)
(* empty text and texts with the line ends "\n" and "\r\n".                *)
(***************************************************************************)
FilePaths ==
    {RelPath(<<"a.txt">>), RelPath(<<"src">>), RelPath(<<"new", "c.txt">>),
     RelPath(<<"missing.txt">>), RelPath(<<"..", "secret.txt">>),
     AbsPath(<<"secret.txt">>)}

Contents == {<<>>, <<"a", "\n", "b">>, <<"a", "\r", "\n", "b">>}

\* the call name(relative_path, content) had the effect e
FileToolCalled(name, relative_path, content, e) ==
    /\ file_calls < MaxFileCalls
    /\ file_calls' = file_calls + 1
    /\ file_call' = FileCall(name, relative_path, content, e.result)
    /\ files' = e.g.files
    /\ UNCHANGED <<CURRENT_PROJECT_PATH, NG_SERVE_PROCESS, running, spawned,
                   last_response, intent, serve_io,
                   chat_session, system_prompt_path,
                   conversation_history_for_this_run, pc,
                   function_calls_from_last_model_turn, fc_index,
                   tool_response_parts_for_api, current_fix_attempt,
                   original_failed_command_details, llm, utterances, rounds,
                   turn_outcome, last_dispatch, aborted_commands>>

ReadFile ==
    \E p \in FilePaths :
        FileToolCalled("read_file", p, <<>>, read_file(Globals, p))

WriteFile ==
    \E p \in FilePaths, c \in Contents :
        FileToolCalled("write_file", p, c, write_file(Globals, p, c))

ListDirectory ==
    \E p \in FilePaths :
        FileToolCalled("list_directory_contents", p, <<>>,
                       list_directory_contents(Globals, p))

DeletePath ==
    \E p \in FilePaths :
        FileToolCalled("delete_file_or_directory", p, <<>>,
                       delete_file_or_directory(Globals, p))

FileInit == Init /\ llm = "files"

FileNext == ReadFile \/ WriteFile \/ ListDirectory \/ DeletePath

FileSpec == FileInit /\ [][FileNext]_vars

(***************************************************************************)
(* Vocabulary of the properties.                                           *)
(***************************************************************************)
\* the call the for loop is at
CurrentCall == function_calls_from_last_model_turn[fc_index]

\* a step of the for loop: the call returned (the loop moves on) or raised
DispatchStep == pc = "dispatch" /\ (fc_index' # fc_index \/ pc' = "prompt")

\* a step of the for loop in which the call returned a result part
CallReturned ==
    /\ pc = "dispatch"
    /\ Len(tool_response_parts_for_api') = Len(tool_response_parts_for_api) + 1

\* a step of the for loop in which the call raised
CallRaised == pc = "dispatch" /\ last_dispatch'.raised

\* the result part that step collected
ReturnedResult ==
    tool_response_parts_for_api'[Len(tool_response_parts_for_api')].result

\* a step in which send_message is called: with a user turn, with tool results
UserTurnSent == utterances' = utterances + 1
ToolResultsSent == rounds' = rounds + 1

\* the globals are as they were
GlobalsUnchanged ==
    UNCHANGED <<CURRENT_PROJECT_PATH, NG_SERVE_PROCESS, running, spawned,
                files>>

\* the failure signals of the command-carrying tools: a non-zero exit code of
\* a command, a server that reports errors during startup; and their success
CommandFailed(fc, result) ==
    \/ /\ fc.name = "execute_shell_command"
       /\ result.has_exit_code /\ result.exit_code # 0
    \/ /\ fc.name = "start_angular_serve_and_get_initial_output"
       /\ result.status = "error_during_startup"

CommandSucceeded(fc, result) ==
    \/ /\ fc.name = "execute_shell_command"
       /\ result.has_exit_code /\ result.exit_code = 0
    \/ /\ fc.name = "start_angular_serve_and_get_initial_output"
       /\ result.status = "compiled_successfully"

(***************************************************************************)
(* C1: every model response holding N >= 1 tool-call requests is answered, *)
(* before the model is called again, by one tool-result turn of exactly N  *)
(* result parts in the order of the requests.  Stated on the steps that    *)
(* call the model: when the last turn of the transcript is a model turn    *)
(* with requests, the step sends the tool results of all of them, in order.*)
(***************************************************************************)
C1_AllCallsAnsweredBeforeNextModelCall ==
    [][LET requested == FunctionCallsOf(conversation_history_for_this_run)
       IN  (requested # <<>> /\ (UserTurnSent \/ ToolResultsSent)) =>
               /\ ToolResultsSent
               /\ Len(tool_response_parts_for_api) = Len(requested)
               /\ \A i \in DOMAIN requested :
                      /\ tool_response_parts_for_api[i].kind = "function_response"
                      /\ tool_response_parts_for_api[i].name = requested[i].name
      ]_vars

(***************************************************************************)
(* C2: in every state of the transcript a model turn that holds tool-call  *)
(* requests is immediately followed by a tool-result turn: no other turn   *)
(* (a new user utterance) is appended while its requests are unanswered.   *)
(***************************************************************************)
C2_RequestsAnsweredInTranscript ==
    \A i \in 1..(Len(conversation_history_for_this_run) - 1) :
        (/\ conversation_history_for_this_run[i].role = "model"
         /\ HasFunctionCall(conversation_history_for_this_run[i]))
            => conversation_history_for_this_run[i + 1].role = "tool"

(***************************************************************************)
(* C3: while a command is tracked, a failure of that command below the     *)
(* ceiling raises the attempt counter by one and keeps it tracked, and a   *)
(* success of that command sets the counter to 0 and clears the tracker.   *)
(***************************************************************************)
C3_CounterStepsAndResets ==
    [][(/\ CallReturned
        /\ original_failed_command_details # None
        /\ CurrentCall.args.command = original_failed_command_details) =>
           /\ (/\ CommandFailed(CurrentCall, ReturnedResult)
               /\ current_fix_attempt < MAX_ERROR_FIX_ATTEMPTS) =>
                  /\ current_fix_attempt' = current_fix_attempt + 1
                  /\ UNCHANGED original_failed_command_details
           /\ CommandSucceeded(CurrentCall, ReturnedResult) =>
                  /\ current_fix_attempt' = 0
                  /\ original_failed_command_details' = None
      ]_vars

\* a batch in which 'ng build' failed and then succeeded: the tracker is clear
C3_Witness ==
    /\ pc = "send"
    /\ Len(tool_response_parts_for_api) = 2
    /\ function_calls_from_last_model_turn[1].args.command = "ng build"
    /\ function_calls_from_last_model_turn[2].args.command = "ng build"
    /\ tool_response_parts_for_api[1].result.exit_code = 1
    /\ tool_response_parts_for_api[2].result.exit_code = 0
    /\ tool_response_parts_for_api[2].result.payload = "completed"
    /\ current_fix_attempt = 0
    /\ original_failed_command_details = None

(***************************************************************************)
(* C4: when the counter of the tracked command is at the ceiling, a        *)
(* further failure of that command leaves the counter where it is and      *)
(* drops the tracker; a failure of a command while nothing is tracked      *)
(* (so the next failure after the drop) leaves the counter at 1.           *)
(***************************************************************************)
C4_CeilingDropsTracker ==
    [][(CallReturned /\ CommandFailed(CurrentCall, ReturnedResult)
        /\ Truthy(CurrentCall.args.command)) =>
           /\ (/\ original_failed_command_details = CurrentCall.args.command
               /\ current_fix_attempt = MAX_ERROR_FIX_ATTEMPTS) =>
                  /\ UNCHANGED current_fix_attempt
                  /\ original_failed_command_details' = None
           /\ original_failed_command_details = None =>
                  /\ current_fix_attempt' = 1
                  /\ original_failed_command_details' = CurrentCall.args.command
      ]_vars

\* a command went past the ceiling in this utterance and has failed again
C4_Witness ==
    /\ original_failed_command_details \in aborted_commands
    /\ current_fix_attempt = 1

(***************************************************************************)
(* C5 as stated: whenever a command string other than the tracked one      *)
(* fails, the tracker switches to it and the counter is 1.                 *)
(***************************************************************************)
C5_AnyOtherCommandRestarts ==
    [][(/\ CallReturned /\ CommandFailed(CurrentCall, ReturnedResult)
        /\ original_failed_command_details # None
        /\ CurrentCall.args.command # original_failed_command_details) =>
           /\ current_fix_attempt' = 1
           /\ original_failed_command_details' = CurrentCall.args.command
      ]_vars

(***************************************************************************)
(* C5 amended: whenever a non-empty command string other than the tracked  *)
(* one fails, whatever the counter, the tracker switches to it and the     *)
(* counter is 1; a failing empty command string leaves the tracker as is.  *)
(***************************************************************************)
C5_OtherNonEmptyCommandRestarts ==
    [][(/\ CallReturned /\ CommandFailed(CurrentCall, ReturnedResult)
        /\ original_failed_command_details # None
        /\ CurrentCall.args.command # original_failed_command_details) =>
           IF CurrentCall.args.command # ""
           THEN /\ current_fix_attempt' = 1
                /\ original_failed_command_details' = CurrentCall.args.command
           ELSE UNCHANGED <<current_fix_attempt,
                            original_failed_command_details>>
      ]_vars

\* a batch in which 'ng build' failed and then 'ng test': 'ng test' is tracked
C5_Witness ==
    /\ pc = "send"
    /\ Len(tool_response_parts_for_api) = 2
    /\ function_calls_from_last_model_turn[1].args.command = "ng build"
    /\ function_calls_from_last_model_turn[2].args.command = "ng test"
    /\ tool_response_parts_for_api[1].result.exit_code = 1
    /\ tool_response_parts_for_api[2].result.exit_code = 1
    /\ current_fix_attempt = 1
    /\ original_failed_command_details = "ng test"

(***************************************************************************)
(* C6: once a command at the ceiling has failed again (the loop printed    *)
(* that the maximum is reached), the loop sends no tool-result turn to the *)
(* model in that user turn and dispatches that command no more.            *)
(***************************************************************************)
C6_NoRetryAfterCeiling ==
    [][aborted_commands # {} =>
           /\ ~ToolResultsSent
           /\ ~(CallReturned /\ CurrentCall.args.command \in aborted_commands)
      ]_vars

(***************************************************************************)
(* C7 as stated: every live supervised process is the one in the slot, and *)
(* a start call made while that process is alive spawns nothing, leaves    *)
(* the slot as it is and returns 'already_running' with the pid in the     *)
(* slot.                                                                   *)
(***************************************************************************)
StartWhileAlive ==
    /\ CallReturned
    /\ CurrentCall.name = "start_angular_serve_and_get_initial_output"
    /\ ServeAlive(Globals)

C7_StartWhileAliveIsAlreadyRunning ==
    /\ [](running \subseteq {NG_SERVE_PROCESS})
    /\ [][StartWhileAlive =>
              /\ GlobalsUnchanged
              /\ ~last_dispatch'.ran
              /\ ReturnedResult.status = "already_running"
              /\ ReturnedResult.pid = NG_SERVE_PROCESS
         ]_vars

(***************************************************************************)
(* C7 amended: every live supervised process is the one in the slot, and a *)
(* start call made while that process is alive spawns nothing and leaves   *)
(* the slot as it is; it returns 'already_running' with the pid in the     *)
(* slot when it names a working directory or the project path is set, and  *)
(* the status 'error' (working directory not set) otherwise.               *)
(***************************************************************************)
C7_StartWhileAliveSpawnsNothing ==
    /\ [](running \subseteq {NG_SERVE_PROCESS})
    /\ [][StartWhileAlive =>
              /\ GlobalsUnchanged
              /\ ~last_dispatch'.ran
              /\ IF \/ CurrentCall.args.working_directory # None
                    \/ Truthy(CURRENT_PROJECT_PATH)
                 THEN /\ ReturnedResult.status = "already_running"
                      /\ ReturnedResult.pid = NG_SERVE_PROCESS
                 ELSE /\ ReturnedResult.status = "error"
                      /\ ReturnedResult.pid = NoProcess
         ]_vars

\* a start call has just been turned away by the live process in the slot
C7_Witness ==
    /\ last_dispatch.fc.name = "start_angular_serve_and_get_initial_output"
    /\ tool_response_parts_for_api # <<>>
    /\ LET result == tool_response_parts_for_api[
                         Len(tool_response_parts_for_api)].result
       IN  /\ result.status = "already_running"
           /\ result.pid = NG_SERVE_PROCESS
    /\ NG_SERVE_PROCESS \in running
    /\ spawned = 1

(***************************************************************************)
(* C8: a stop call made when no supervised process is alive (empty slot or *)
(* a process that has exited) returns 'not_running', sends no signal, does *)
(* not raise and changes nothing, however often it is repeated.            *)
(***************************************************************************)
C8_StopWhenNotRunning ==
    [][(/\ pc = "dispatch"
        /\ CurrentCall.name = "stop_angular_server"
        /\ Accepts(CurrentCall.name, CurrentCall.args)
        /\ ~ServeAlive(Globals)
        /\ DispatchStep) =>
           /\ CallReturned
           /\ ~last_dispatch'.raised
           /\ ReturnedResult.status = "not_running"
           /\ last_dispatch'.signals = <<>>
           /\ GlobalsUnchanged
      ]_vars

\* two stop calls in a row with no process alive, the second on a stale handle
C8_Witness ==
    /\ pc = "send"
    /\ Len(tool_response_parts_for_api) = 2
    /\ \A i \in 1..2 :
           /\ tool_response_parts_for_api[i].name = "stop_angular_server"
           /\ tool_response_parts_for_api[i].result.status = "not_running"
    /\ NG_SERVE_PROCESS # NoProcess

(***************************************************************************)
(* C9: a request whose name is not in the registry gets the result part    *)
(* 'Unknown tool', invokes no tool and changes no global, does not raise,  *)
(* and the loop goes on: to the next call of the batch, or after the last  *)
(* one to the sending of the tool-result turn, which holds a part for      *)
(* every call; no turn is abandoned at an unregistered name.               *)
(***************************************************************************)
C9_UnknownToolIsAResult ==
    /\ [][(/\ DispatchStep
           /\ CurrentCall.name \notin available_tools_python_functions) =>
              /\ CallReturned
              /\ ReturnedResult.payload = "Unknown tool"
              /\ tool_response_parts_for_api'[
                     Len(tool_response_parts_for_api')].name = CurrentCall.name
              /\ ~last_dispatch'.invoked /\ ~last_dispatch'.ran
              /\ ~last_dispatch'.raised
              /\ GlobalsUnchanged
              /\ fc_index' = fc_index + 1
              /\ pc' = IF fc_index = Len(function_calls_from_last_model_turn)
                       THEN "send" ELSE "dispatch"
         ]_vars
    /\ [](pc = "send" =>
              Len(tool_response_parts_for_api) =
                  Len(function_calls_from_last_model_turn))
    /\ [](turn_outcome = "tool_exception" =>
              last_dispatch.fc.name \in available_tools_python_functions)

\* an unregistered name came first in a batch and the next call was dispatched
C9_Witness ==
    /\ pc = "send"
    /\ Len(tool_response_parts_for_api) = 2
    /\ function_calls_from_last_model_turn[1].name
           \notin available_tools_python_functions
    /\ tool_response_parts_for_api[1].result.payload = "Unknown tool"
    /\ function_calls_from_last_model_turn[2].name = "execute_shell_command"
    /\ last_dispatch.invoked

(***************************************************************************)
(* C10: a registered tool whose dispatch raises gets a failure result part *)
(* and the loop goes on with the batch: the turn is not abandoned.         *)
(***************************************************************************)
C10_ToolExceptionIsAResult ==
    [][CallRaised => CallReturned /\ pc' \in {"dispatch", "send"}]_vars

(***************************************************************************)
(* C11: when a call of the model raises, on the send of the user turn or   *)
(* of a tool-result turn, process_user_command returns to the prompt, every*)
(* turn that was in the transcript is still there, in place and unaltered, *)
(* the chat session is set and the same, and the next user utterance is    *)
(* sent through that same session.                                         *)
(***************************************************************************)
C11_ModelExceptionKeepsSession ==
    /\ [][((UserTurnSent \/ ToolResultsSent)
           /\ turn_outcome' = "model_exception") =>
              /\ pc' = "prompt"
              /\ Len(conversation_history_for_this_run')
                     >= Len(conversation_history_for_this_run)
              /\ \A i \in DOMAIN conversation_history_for_this_run :
                     Archived(conversation_history_for_this_run'[i]) =
                         Archived(conversation_history_for_this_run[i])
              /\ chat_session' = chat_session
              /\ chat_session' # 0
         ]_vars
    /\ [][(turn_outcome = "model_exception" /\ UserTurnSent) =>
              chat_session' = chat_session]_vars
    /\ [](turn_outcome = "model_exception" =>
              pc = "prompt" /\ chat_session # 0)

\* the send of the first utterance raised, and the second utterance got its
\* answer from the session of the start
C11_Witness ==
    /\ utterances = 2
    /\ turn_outcome = "completed"
    /\ Len(conversation_history_for_this_run) = 5
    /\ conversation_history_for_this_run[3].role = "user"
    /\ conversation_history_for_this_run[4].role = "user"
    /\ conversation_history_for_this_run[5].role = "model"
    /\ chat_session = 1

(***************************************************************************)
(* C12: whenever the model is called, the standing instructions of the     *)
(* session name the active project path: a project-creation command that   *)
(* changed the path has had the instructions rebuilt before that call.     *)
(***************************************************************************)
C12_InstructionsRebuiltBeforeNextCall ==
    [][(UserTurnSent \/ ToolResultsSent) =>
           system_prompt_path = CURRENT_PROJECT_PATH]_vars

(***************************************************************************)
(* Vocabulary of the supervisor properties.                                *)
(***************************************************************************)
\* a step in which a stop call finds the process of the slot alive
StopWhileAlive ==
    /\ pc = "dispatch"
    /\ CurrentCall.name = "stop_angular_server"
    /\ Accepts(CurrentCall.name, CurrentCall.args)
    /\ ServeAlive(Globals)
    /\ DispatchStep

\* a step in which a start call spawned its process and monitored it
StartSpawned ==
    /\ CallReturned
    /\ CurrentCall.name = "start_angular_serve_and_get_initial_output"
    /\ last_dispatch'.ran

\* the polls of the monitoring window of that step
PollsMade == last_dispatch'.answer.startup.polls

SuccessPolls == {"success", "success+error"}
ErrorPolls == {"error", "success+error"}

(***************************************************************************)
(* C17: a stop call on a live process sends terminate first and kill only  *)
(* when the process did not exit within the grace period; the status is    *)
(* 'stopped' or 'killed' accordingly, and in both cases the process is not *)
(* alive and the slot is empty afterwards, so that a start call is turned  *)
(* away as already running only by a process started after the stop.      *)
(***************************************************************************)
C17_StopTerminatesThenKills ==
    /\ [][StopWhileAlive =>
              /\ CallReturned
              /\ IF last_dispatch'.answer.in_time
                 THEN /\ last_dispatch'.signals = <<"terminate">>
                      /\ ReturnedResult.status = "stopped"
                 ELSE /\ last_dispatch'.signals = <<"terminate", "kill">>
                      /\ ReturnedResult.status = "killed"
              /\ NG_SERVE_PROCESS' = NoProcess
              /\ NG_SERVE_PROCESS \notin running'
              /\ spawned' = spawned
         ]_vars
    /\ [][(/\ CallReturned
           /\ CurrentCall.name = "start_angular_serve_and_get_initial_output"
           /\ ReturnedResult.status = "already_running") =>
              NG_SERVE_PROCESS # NoProcess /\ NG_SERVE_PROCESS \in running
         ]_vars

\* a batch that stopped the live server by a kill and started it again
C17_Witness ==
    /\ pc = "send"
    /\ Len(tool_response_parts_for_api) = 2
    /\ tool_response_parts_for_api[1].name = "stop_angular_server"
    /\ tool_response_parts_for_api[1].result.status = "killed"
    /\ tool_response_parts_for_api[2].name =
           "start_angular_serve_and_get_initial_output"
    /\ tool_response_parts_for_api[2].result.status = "compiled_successfully"
    /\ NG_SERVE_PROCESS = 2
    /\ running = {2}

(***************************************************************************)
(* C18: once an error marker has been read in the monitoring window of a   *)
(* start call, the call returns 'error_during_startup', whatever is read   *)
(* at that poll or afterwards.                                             *)
(***************************************************************************)
C18_FailedIsFinal ==
    [][(StartSpawned /\ \E i \in DOMAIN PollsMade : PollsMade[i] \in ErrorPolls)
           => ReturnedResult.status = "error_during_startup"]_vars

(***************************************************************************)
(* C19: when a success marker is read at a poll of the monitoring window,  *)
(* monitoring ends at that poll and the call returns                       *)
(* 'compiled_successfully'.                                                *)
(***************************************************************************)
C19_SuccessEndsMonitoring ==
    [][StartSpawned =>
           \A i \in DOMAIN PollsMade :
               PollsMade[i] \in SuccessPolls =>
                   /\ Len(PollsMade) = i
                   /\ ReturnedResult.status = "compiled_successfully"
      ]_vars

(***************************************************************************)
(* C20: when the window elapses with no marker read and the process alive, *)
(* the start call returns 'compiling_or_timeout' and sends no signal, the  *)
(* process is alive in the slot, and the loop does not take the result for *)
(* a failure: no attempt is counted, no command tracked or given up.       *)
(***************************************************************************)
C20_TimeoutIsNotAFailure ==
    [][(StartSpawned /\ \A i \in DOMAIN PollsMade : PollsMade[i] = "quiet") =>
           /\ Len(PollsMade) = MaxPolls
           /\ ReturnedResult.status = "compiling_or_timeout"
           /\ last_dispatch'.signals = <<>>
           /\ NG_SERVE_PROCESS' = ReturnedResult.pid
           /\ NG_SERVE_PROCESS' # NoProcess
           /\ NG_SERVE_PROCESS' \in running'
           /\ current_fix_attempt' # current_fix_attempt + 1
           /\ original_failed_command_details'
                  \in {original_failed_command_details, None}
           /\ aborted_commands' = aborted_commands
      ]_vars

\* a start call has just returned the timeout status for a quiet window
C20_Witness ==
    /\ last_dispatch.fc.name = "start_angular_serve_and_get_initial_output"
    /\ last_dispatch.ran
    /\ last_dispatch.answer.startup.polls = [i \in 1..MaxPolls |-> "quiet"]
    /\ tool_response_parts_for_api # <<>>
    /\ tool_response_parts_for_api[Len(tool_response_parts_for_api)]
           .result.status = "compiling_or_timeout"
    /\ NG_SERVE_PROCESS \in running
    /\ current_fix_attempt = 0
    /\ original_failed_command_details = None

(***************************************************************************)
(* Vocabulary of the file-tool properties.                                 *)
(***************************************************************************)
FileTools ==
    {"read_file", "write_file", "list_directory_contents",
     "delete_file_or_directory"}

\* the failure result of each file tool
FileToolFailed(name, result) ==
    CASE name = "read_file" -> result.payload # "content" /\ result.text = <<>>
      [] name = "write_file" -> result.payload = "False"
      [] name = "list_directory_contents" ->
             result.payload # "success" /\ result.contents = {}
      [] name = "delete_file_or_directory" -> result.status = "error"
      [] OTHER -> FALSE

\* a step of FileSpec: a file tool is called directly
FileToolStep == file_calls' = file_calls + 1

\* the path that call works on
TargetPath == FullPath(CURRENT_PROJECT_PATH, file_call'.relative_path)

\* the filesystem is as it was except at the paths of gone
FilesUnchangedExcept(gone) ==
    /\ DOMAIN files' = DOMAIN files \ gone
    /\ \A q \in DOMAIN files' : files'[q] = files[q]

(***************************************************************************)
(* C13: while the active project path is unset, a dispatched read_file,    *)
(* write_file, list_directory_contents or delete_file_or_directory returns *)
(* its failure result and leaves the filesystem as it is, and a dispatched *)
(* execute_shell_command (not an 'ng new' command) or start of the server  *)
(* without a working directory returns a failure result and runs no        *)
(* process.                                                                *)
(***************************************************************************)
C13_UnsetPathFailsFast ==
    [][(/\ DispatchStep
        /\ ~Truthy(CURRENT_PROJECT_PATH)
        /\ Accepts(CurrentCall.name, CurrentCall.args)) =>
           /\ CurrentCall.name \in FileTools =>
                  /\ CallReturned
                  /\ FileToolFailed(CurrentCall.name, ReturnedResult)
                  /\ GlobalsUnchanged
           /\ (/\ CurrentCall.name = "execute_shell_command"
               /\ CurrentCall.args.working_directory = None
               /\ ~ContainsNgNew(CurrentCall.args.command)) =>
                  /\ CallReturned
                  /\ ReturnedResult.has_exit_code
                  /\ ReturnedResult.exit_code # 0
                  /\ ~last_dispatch'.ran
                  /\ GlobalsUnchanged
           /\ (/\ CurrentCall.name =
                      "start_angular_serve_and_get_initial_output"
               /\ CurrentCall.args.working_directory = None) =>
                  /\ CallReturned
                  /\ ReturnedResult.status = "error"
                  /\ ~last_dispatch'.ran
                  /\ GlobalsUnchanged
      ]_vars

\* with no project path, a batch of a write_file and a delete has failed
C13_Witness ==
    /\ ~Truthy(CURRENT_PROJECT_PATH)
    /\ pc = "send"
    /\ Len(tool_response_parts_for_api) = 2
    /\ tool_response_parts_for_api[1].name = "write_file"
    /\ tool_response_parts_for_api[1].result.payload = "False"
    /\ tool_response_parts_for_api[2].name = "delete_file_or_directory"
    /\ tool_response_parts_for_api[2].result.status = "error"
    /\ files = InitialFiles

(***************************************************************************)
(* C14: a file tool called with a path that resolves outside the active    *)
(* project root (through ".." or because it is absolute) returns its       *)
(* failure result and leaves the filesystem unchanged.                     *)
(***************************************************************************)
C14_ConfinedToProjectRoot ==
    [][(/\ FileToolStep
        /\ Truthy(CURRENT_PROJECT_PATH)
        /\ ~AtOrBelow(PathSegs(CURRENT_PROJECT_PATH), TargetPath)) =>
           /\ FileToolFailed(file_call'.name, file_call'.result)
           /\ files' = files
      ]_vars

(***************************************************************************)
(* C15: with the active project path set, a write_file(p, c) that returned *)
(* True followed at once by read_file(p) returns exactly c, for the empty  *)
(* text and texts with embedded line ends.                                 *)
(***************************************************************************)
C15_WriteThenReadReturnsContent ==
    [][(/\ FileToolStep
        /\ Truthy(CURRENT_PROJECT_PATH)
        /\ file_call.name = "write_file"
        /\ file_call.result.payload = "True"
        /\ file_call'.name = "read_file"
        /\ file_call'.relative_path = file_call.relative_path) =>
           /\ file_call'.result.payload = "content"
           /\ file_call'.result.text = file_call.content
      ]_vars

(***************************************************************************)
(* C16: delete_file_or_directory on a path that does not exist returns the *)
(* error status and changes nothing; on a file it removes that file and    *)
(* nothing else; on a directory it removes the directory and all that is   *)
(* below it and nothing else.                                              *)
(***************************************************************************)
C16_DeleteRemovesExactlyTheTree ==
    [][(/\ FileToolStep
        /\ Truthy(CURRENT_PROJECT_PATH)
        /\ file_call'.name = "delete_file_or_directory") =>
           /\ ~PathExists(files, TargetPath) =>
                  /\ file_call'.result.status = "error"
                  /\ files' = files
           /\ IsFile(files, TargetPath) =>
                  /\ file_call'.result.status = "success"
                  /\ FilesUnchangedExcept({TargetPath})
           /\ IsDirectory(files, TargetPath) =>
                  /\ file_call'.result.status = "success"
                  /\ FilesUnchangedExcept(
                         {q \in DOMAIN files : AtOrBelow(TargetPath, q)})
      ]_vars

\* the directory src has just been deleted with the file below it, and the
\* file next to it is still there
C16_Witness ==
    /\ file_call.name = "delete_file_or_directory"
    /\ file_call.relative_path = RelPath(<<"src">>)
    /\ file_call.result.status = "success"
    /\ <<"work", "src">> \notin DOMAIN files
    /\ <<"work", "src", "b.txt">> \notin DOMAIN files
    /\ <<"work", "a.txt">> \in DOMAIN files
    /\ <<"secret.txt">> \in DOMAIN files

(***************************************************************************)
(* Vocabulary of the properties of the turn loop and the session.          *)
(***************************************************************************)
\* a step in which send_message returned a response
ModelReturned ==
    (UserTurnSent \/ ToolResultsSent) /\ turn_outcome' # "model_exception"

\* a step that ends a user turn normally: process_user_command returns past
\* the while loop
TurnEndsNormally == ModelReturned /\ pc' = "prompt"

\* two requests are the same but for the arguments line 448 writes
SameRequest(a, b) == a.name = b.name /\ a.args.command = b.args.command

\* the user turn is the turn before the last one of the transcript: the for
\* loop is on the first response of the user turn
OnFirstResponse ==
    LET n == Len(conversation_history_for_this_run)
    IN  n >= 2 /\ conversation_history_for_this_run[n - 1].role = "user"

(***************************************************************************)
(* C21: after the start call has returned with the server alive, each      *)
(* reader thread goes on reading its stream: it has not left its loop, has *)
(* not closed its stream and has dropped no line it read.                  *)
(***************************************************************************)
C21_ReadersOutliveTheWindow ==
    (serve_io.main = "returned" /\ serve_io.alive) =>
        \A s \in Streams :
            /\ serve_io.reader[s].pc # "closed"
            /\ serve_io.dropped[s] = <<>>

(***************************************************************************)
(* C22: a user turn ends normally exactly when the response send_message   *)
(* has just returned holds no tool-call request (an empty response         *)
(* included): a response with requests starts the for loop, the results    *)
(* are sent only when every request of the latest response has its result  *)
(* part, and a turn in its for loop or about to send results reaches the   *)
(* prompt again.                                                           *)
(***************************************************************************)
C22_TurnEndsExactlyOnNoRequests ==
    /\ [][ModelReturned =>
              /\ (last_response'.calls = <<>>) <=>
                     (pc' = "prompt" /\ turn_outcome' = "completed")
              /\ (last_response'.calls # <<>>) <=> (pc' = "dispatch")
         ]_vars
    /\ [][(pc' = "prompt" /\ turn_outcome' = "completed"
               /\ turn_outcome # "completed") => TurnEndsNormally]_vars
    /\ [][ToolResultsSent =>
              Len(tool_response_parts_for_api) = Len(last_response.calls)
         ]_vars
    /\ (pc \in {"dispatch", "send"}) ~> (pc = "prompt")

\* a turn has ended on an empty response to tool results: the last turn of
\* the transcript is the tool turn
C22_Witness ==
    /\ pc = "prompt" /\ turn_outcome = "completed"
    /\ last_response = Response(FALSE, <<>>)
    /\ rounds >= 1
    /\ conversation_history_for_this_run[
           Len(conversation_history_for_this_run)].role = "tool"

(***************************************************************************)
(* C23: a result of an unknown tool, an 'already_running' result and a     *)
(* result of status 'error' that carry the tracked command string leave    *)
(* the tracked command and the counter as they were.                       *)
(***************************************************************************)
C23_OnlySuccessClearsTracker ==
    [][(/\ CallReturned
        /\ original_failed_command_details # None
        /\ CurrentCall.args.command = original_failed_command_details
        /\ \/ CurrentCall.name \notin available_tools_python_functions
           \/ ReturnedResult.status \in {"already_running", "error"})
           => UNCHANGED <<current_fix_attempt,
                          original_failed_command_details>>
      ]_vars

(***************************************************************************)
(* C24: when the session ends, a live process of the slot is sent          *)
(* terminate and, when it has not exited within the grace period, kill; a  *)
(* session that has ended has no supervised process alive.                 *)
(***************************************************************************)
C24_TeardownLeavesNoProcess ==
    /\ [][(pc # "done" /\ pc' = "done") =>
              /\ running' = {}
              /\ last_dispatch'.signals =
                     IF NG_SERVE_PROCESS \in running
                     THEN IF last_dispatch'.answer.in_time
                          THEN <<"terminate">>
                          ELSE <<"terminate", "kill">>
                     ELSE <<>>
         ]_vars
    /\ [](pc = "done" => running = {})

\* the session has ended and the process of the slot, alive until then, had
\* to be killed
C24_Witness ==
    /\ pc = "done"
    /\ NG_SERVE_PROCESS # NoProcess
    /\ last_dispatch.signals = <<"terminate", "kill">>
    /\ running = {}

(***************************************************************************)
(* C25: the active project path changes only in a dispatch of              *)
(* execute_shell_command with an 'ng new' command that ran, exited with    *)
(* status 0 and left its project directory, and then to that directory;    *)
(* any other step leaves it as it was.                                     *)
(***************************************************************************)
C25_PathChangesOnlyByNgNew ==
    [][CURRENT_PROJECT_PATH' # CURRENT_PROJECT_PATH =>
           /\ CallReturned
           /\ CurrentCall.name = "execute_shell_command"
           /\ ContainsNgNew(CurrentCall.args.command)
           /\ last_dispatch'.ran
           /\ ReturnedResult.has_exit_code /\ ReturnedResult.exit_code = 0
           /\ IsDir(CURRENT_PROJECT_PATH', last_dispatch'.answer.created)
           /\ ReturnedResult.new_project_path_set = CURRENT_PROJECT_PATH'
      ]_vars

\* an 'ng new' that exited with 0 has just made its directory the project
\* path
C25_Witness ==
    /\ last_dispatch.fc.name = "execute_shell_command"
    /\ last_dispatch.ran
    /\ last_dispatch.answer.exit_code = 0 /\ last_dispatch.answer.created
    /\ CURRENT_PROJECT_PATH = "/parent/app"
    /\ system_prompt_path # CURRENT_PROJECT_PATH

(***************************************************************************)
(* C26: the text sent to the model for an utterance is a function of the   *)
(* utterance alone: the restart text when the lower-cased utterance holds  *)
(* a restart keyword, else the stop text when it holds a stop keyword,     *)
(* else the start text when it holds a serve keyword, else the utterance   *)
(* itself; and the text of the user turn appended to the transcript is the *)
(* text sent.                                                              *)
(***************************************************************************)
C26_IntentRewriting ==
    intent # NoIntent =>
        LET user_input == intent.user_input
            restart == AnyIn(restart_keywords, Lower(user_input))
            stop == AnyIn(stop_keywords, Lower(user_input))
            serve == AnyIn(serve_keywords, Lower(user_input))
        IN  /\ restart => intent.sent = Augmented("restart", user_input)
            /\ (~restart /\ stop) =>
                   intent.sent = Augmented("stop", user_input)
            /\ (~restart /\ ~stop /\ serve) =>
                   intent.sent = Augmented("start", user_input)
            /\ (~restart /\ ~stop /\ ~serve) => intent.sent = user_input
            /\ intent.appended = intent.sent

\* an utterance with capitals that holds a keyword of each list was sent as
\* a restart
C26_Witness ==
    /\ intent # NoIntent
    /\ utterances >= 1
    /\ intent.user_input # Lower(intent.user_input)
    /\ AnyIn(restart_keywords, Lower(intent.user_input))
    /\ AnyIn(stop_keywords, Lower(intent.user_input))
    /\ AnyIn(serve_keywords, Lower(intent.user_input))
    /\ intent.sent = Augmented("restart", intent.user_input)

(***************************************************************************)
(* C27: a start call that returns the status 'error' (the spawn failed, or *)
(* no working directory is set) for a non-empty command is counted as a    *)
(* failure of that command: the counter is at least 1 afterwards and the   *)
(* command is the tracked one, or the loop has given it up at the ceiling. *)
(***************************************************************************)
C27_SpawnFailureIsCounted ==
    [][(/\ CallReturned
        /\ CurrentCall.name = "start_angular_serve_and_get_initial_output"
        /\ ReturnedResult.status = "error"
        /\ Truthy(CurrentCall.args.command)) =>
           /\ current_fix_attempt' >= 1
           /\ \/ original_failed_command_details' = CurrentCall.args.command
              \/ CurrentCall.args.command \in aborted_commands'
      ]_vars

(***************************************************************************)
(* C28: the calls the loop derives from the last entry of the transcript   *)
(* are the requests of the latest response of the model, in order: what    *)
(* the loop head derives when a response has been returned is that         *)
(* response's requests, the loop is done exactly when there are none, the  *)
(* for loop is on those requests with one result part for each one before  *)
(* the current one, and the results are sent with one part for each.       *)
(***************************************************************************)
C28_DerivedCallsAreTheLatestRequests ==
    /\ [][ModelReturned =>
              /\ FunctionCallsOf(conversation_history_for_this_run') =
                     last_response'.calls
              /\ function_calls_from_last_model_turn' = last_response'.calls
              /\ (pc' = "prompt") <=> (last_response'.calls = <<>>)
         ]_vars
    /\ [](pc \in {"dispatch", "send"} =>
              /\ Len(function_calls_from_last_model_turn) =
                     Len(last_response.calls)
              /\ \A i \in DOMAIN last_response.calls :
                     SameRequest(function_calls_from_last_model_turn[i],
                                 last_response.calls[i])
              /\ Len(tool_response_parts_for_api) = fc_index - 1
              /\ \A i \in DOMAIN tool_response_parts_for_api :
                     tool_response_parts_for_api[i].name =
                         last_response.calls[i].name
              /\ (pc = "send") <=> (fc_index = Len(last_response.calls) + 1))
    /\ [](pc = "prompt" /\ turn_outcome = "completed" =>
              last_response.calls = <<>>)

\* the session was initialized anew in a turn whose loop went on with the
\* second request of the response, and the turn ended on an empty response
C28_Witness ==
    /\ chat_session = 2
    /\ rounds = 1
    /\ Len(conversation_history_for_this_run) = 3
    /\ pc = "prompt" /\ turn_outcome = "completed"
    /\ last_response = Response(FALSE, <<>>)

(***************************************************************************)
(* C29: a step leaves the transcript as it was, appends turns to it, or -  *)
(* with a new chat session - resets it to the two initial turns.           *)
(***************************************************************************)
C29_TranscriptOnlyGrows ==
    [][\/ conversation_history_for_this_run' =
              conversation_history_for_this_run
       \/ /\ chat_session' # chat_session
          /\ conversation_history_for_this_run' = initial_history_for_session
       \/ /\ Len(conversation_history_for_this_run') >
                 Len(conversation_history_for_this_run)
          /\ \A i \in DOMAIN conversation_history_for_this_run :
                 Archived(conversation_history_for_this_run'[i]) =
                     Archived(conversation_history_for_this_run[i])
      ]_vars

(***************************************************************************)
(* C30: every user turn whose first send returns starts its loop with no   *)
(* tracked command and the counter 0, whatever the turn before left, and   *)
(* the failure of a non-empty command in the first dispatch of a turn      *)
(* makes the counter 1.                                                    *)
(***************************************************************************)
C30_TrackerStartsAfreshEachTurn ==
    /\ [][(UserTurnSent /\ turn_outcome' # "model_exception") =>
              /\ current_fix_attempt' = 0
              /\ original_failed_command_details' = None
         ]_vars
    /\ [][(/\ CallReturned /\ fc_index = 1 /\ OnFirstResponse
           /\ CommandFailed(CurrentCall, ReturnedResult)
           /\ Truthy(CurrentCall.args.command)) =>
              /\ current_fix_attempt' = 1
              /\ original_failed_command_details' = CurrentCall.args.command
         ]_vars

\* after a turn of two rounds of requests, the first failure of the second
\* turn has been counted as attempt 1
C30_Witness ==
    /\ utterances = 2 /\ rounds = 2
    /\ pc = "send"
    /\ OnFirstResponse
    /\ Len(tool_response_parts_for_api) = 1
    /\ current_fix_attempt = 1
    /\ original_failed_command_details = "ng build"

(***************************************************************************)
(* C33: under every interleaving of the server, the two reader threads and *)
(* the calling thread, the lines collected for a stream carry that         *)
(* stream's name and are, followed by the lines still in the queue, the    *)
(* lines its reader has enqueued, in that order and each one once (the     *)
(* lines of a stream are numbered, so no number occurs twice); and once    *)
(* the window has ended the start returns, whatever the readers do.        *)
(***************************************************************************)
C33_LogIsWhatTheReadersEnqueued ==
    /\ [](\A s \in Streams :
              /\ serve_io.collected[s] \o serve_io.output_queue[s] =
                     serve_io.printed[s]
              /\ \A i \in DOMAIN serve_io.collected[s] :
                     /\ serve_io.collected[s][i].stream = s
                     /\ \A j \in DOMAIN serve_io.collected[s] :
                            i < j => serve_io.collected[s][i].line <
                                         serve_io.collected[s][j].line)
    /\ (serve_io.main = "joining") ~> (serve_io.main = "returned")

\* the start has returned a log of two lines of stdout and one of stderr
\* while the server is alive and the reader of stdout waits for a line
C33_Witness ==
    /\ serve_io.main = "returned"
    /\ serve_io.alive
    /\ serve_io.reader["stdout"].pc = "readline"
    /\ serve_io.pipe["stdout"] = <<>>
    /\ Len(serve_io.collected["stdout"]) = 2
    /\ Len(serve_io.collected["stderr"]) = 1

(***************************************************************************)
(* C31: when a dispatch starts a new chat session, the transcript is the   *)
(* two initial turns afterwards and the for loop goes on with the calls    *)
(* that remain, in order; the results of the batch are then sent as one    *)
(* tool turn with one part for each request of the response, in order, to  *)
(* the new session, and that turn follows the two initial turns in the     *)
(* transcript: no model turn with the requests precedes it.                *)
(***************************************************************************)
C31_BatchGoesOnAfterReinit ==
    /\ [][(pc = "dispatch" /\ chat_session' # chat_session) =>
              /\ CallReturned
              /\ chat_session' = chat_session + 1
              /\ conversation_history_for_this_run' =
                     initial_history_for_session
              /\ fc_index' = fc_index + 1
              /\ Len(function_calls_from_last_model_turn') =
                     Len(function_calls_from_last_model_turn)
              /\ \A i \in DOMAIN function_calls_from_last_model_turn :
                     i > fc_index =>
                         function_calls_from_last_model_turn'[i] =
                             function_calls_from_last_model_turn[i]
              /\ pc' = IF fc_index = Len(function_calls_from_last_model_turn)
                       THEN "send" ELSE "dispatch"
         ]_vars
    /\ [][(/\ ToolResultsSent
           /\ conversation_history_for_this_run =
                  initial_history_for_session) =>
              /\ Len(tool_response_parts_for_api) = Len(last_response.calls)
              /\ \A i \in DOMAIN tool_response_parts_for_api :
                     tool_response_parts_for_api[i].name =
                         last_response.calls[i].name
              /\ chat_session' = chat_session
              /\ Len(conversation_history_for_this_run') >= 3
              /\ \A i \in 1..2 :
                     Archived(conversation_history_for_this_run'[i]) =
                         Archived(initial_history_for_session[i])
              /\ ~HasFunctionCall(conversation_history_for_this_run'[2])
              /\ conversation_history_for_this_run'[3].role = "tool"
         ]_vars
    /\ [](/\ pc \in {"dispatch", "send"}
          /\ conversation_history_for_this_run = initial_history_for_session
          => chat_session > 1 /\ system_prompt_path = CURRENT_PROJECT_PATH)

\* the first call of a batch of two started a new session, the second call
\* was dispatched, and the two results are about to be sent
C31_Witness ==
    /\ pc = "send"
    /\ chat_session = 2
    /\ conversation_history_for_this_run = initial_history_for_session
    /\ Len(tool_response_parts_for_api) = 2
    /\ tool_response_parts_for_api[1].result.new_project_path_set # None
    /\ tool_response_parts_for_api[2].result.new_project_path_set = None

\* the slot holds the handle of a process that has exited
StaleHandle ==
    NG_SERVE_PROCESS # NoProcess /\ NG_SERVE_PROCESS \notin running

(***************************************************************************)
(* C32: when the process of the slot has exited, a stop call returns       *)
(* 'not_running', sends no signal and leaves the handle in the slot; a     *)
(* start call is not answered 'already_running' and, unless its spawn      *)
(* fails, spawns a new process whose handle replaces the one of the slot;  *)
(* a start is answered 'already_running' only when the process of the slot *)
(* is alive.                                                               *)
(***************************************************************************)
C32_StaleHandleBlocksNoStart ==
    /\ [][(CallReturned /\ CurrentCall.name = "stop_angular_server"
               /\ StaleHandle) =>
              /\ ReturnedResult.status = "not_running"
              /\ last_dispatch'.signals = <<>>
              /\ NG_SERVE_PROCESS' = NG_SERVE_PROCESS
         ]_vars
    /\ [][(/\ CallReturned
           /\ CurrentCall.name =
                  "start_angular_serve_and_get_initial_output"
           /\ StaleHandle) =>
              /\ ReturnedResult.status # "already_running"
              /\ ReturnedResult.status # "error" =>
                     /\ last_dispatch'.ran
                     /\ spawned' = spawned + 1
                     /\ NG_SERVE_PROCESS' = spawned'
                     /\ NG_SERVE_PROCESS' # NG_SERVE_PROCESS
                     /\ ReturnedResult.pid = NG_SERVE_PROCESS'
              /\ ReturnedResult.status = "error" =>
                     NG_SERVE_PROCESS' = NG_SERVE_PROCESS
         ]_vars
    /\ [][(/\ CallReturned
           /\ CurrentCall.name =
                  "start_angular_serve_and_get_initial_output"
           /\ ReturnedResult.status = "already_running") =>
              NG_SERVE_PROCESS \in running
         ]_vars

\* two starts in one batch: the process of the first had exited when the
\* second was dispatched, and the second spawned a process of its own
C32_Witness ==
    /\ rounds = 0
    /\ Len(tool_response_parts_for_api) = 2
    /\ tool_response_parts_for_api[1].name =
           "start_angular_serve_and_get_initial_output"
    /\ tool_response_parts_for_api[1].result.pid = 1
    /\ tool_response_parts_for_api[2].name =
           "start_angular_serve_and_get_initial_output"
    /\ tool_response_parts_for_api[2].result.pid = 2
    /\ NG_SERVE_PROCESS = 2

(***************************************************************************)
(* C34: the attempt counter is between 0 and the ceiling, and while a      *)
(* command is tracked it is at least 1.                                    *)
(***************************************************************************)
C34_CounterWithinBounds ==
    /\ current_fix_attempt \in 0..MAX_ERROR_FIX_ATTEMPTS
    /\ original_failed_command_details # None => current_fix_attempt >= 1

\* a command is tracked at the ceiling, its results about to be sent
C34_Witness ==
    /\ pc = "send"
    /\ current_fix_attempt = MAX_ERROR_FIX_ATTEMPTS
    /\ original_failed_command_details = "ng test"

(***************************************************************************)
(* C35: a result of a tool that takes no command - read_file, write_file,  *)
(* list_directory_contents, delete_file_or_directory, stop_angular_server, *)
(* ask_user_confirmation - whether it reports an error or not, leaves the  *)
(* tracked command and the attempt counter as they were.                   *)
(***************************************************************************)
C35_ResultsWithoutCommandLeaveTracker ==
    [][(/\ CallReturned
        /\ CurrentCall.name \in available_tools_python_functions
        /\ CurrentCall.name \notin CommandTools) =>
           UNCHANGED <<current_fix_attempt, original_failed_command_details>>
      ]_vars

\* a delete has failed while a command is tracked
C35_Witness ==
    /\ pc \in {"dispatch", "send"}
    /\ original_failed_command_details = "ng build"
    /\ current_fix_attempt = 2
    /\ last_dispatch.fc.name = "delete_file_or_directory"
    /\ tool_response_parts_for_api[
           Len(tool_response_parts_for_api)].result.status = "error"

====
